---------------------------- MODULE Spec2Model ----------------------------
(***************************************************************************)
(* Model of src/src/core/custom_recognizers.py: the structural validators, *)
(* checksum functions and analyze() methods of the Australian document     *)
(* recognizers and of the enhanced phone recognizer.                       *)
(*                                                                         *)
(* A Python str is a sequence of one-character strings.  One call of one   *)
(* method is one behaviour: Init draws the receiver and the arguments, the *)
(* action of that method computes what the method returns (or raises).     *)
(***************************************************************************)
EXTENDS Integers, Sequences, FiniteSets, TLC

VARIABLES
    recognizer,  \* the entity type of the recognizer that receives the call
    call,        \* "validate" (the structural validator) or "analyze"
    argtype,     \* the Python type of the text argument: "str", "NoneType", "int"
    arg,         \* the characters of the text argument (<<>> when it is no str)
    entities,    \* analyze's entities argument, as a set
    phonelib,    \* what python-phonenumbers answers for this text
    pc,          \* "called", then "returned" or "raised"
    valid,       \* the validator's return value
    results,     \* analyze's return value
    exc,         \* the exception that left the call, "" when none
    self,        \* the attributes __init__ gave the recognizer object
    history      \* the calls of analyze this object has completed, oldest first

vars == <<recognizer, call, argtype, arg, entities, phonelib, pc, valid, results,
          exc, self, history>>

-----------------------------------------------------------------------------
(* Characters and the str methods the validators use                       *)

DigitSeq == <<"0", "1", "2", "3", "4", "5", "6", "7", "8", "9">>

UpperSeq == <<"A", "B", "C", "D", "E", "F", "G", "H", "I", "J", "K", "L", "M",
              "N", "O", "P", "Q", "R", "S", "T", "U", "V", "W", "X", "Y", "Z">>

LowerSeq == <<"a", "b", "c", "d", "e", "f", "g", "h", "i", "j", "k", "l", "m",
              "n", "o", "p", "q", "r", "s", "t", "u", "v", "w", "x", "y", "z">>

Range(f) == {f[i] : i \in DOMAIN f}

DigitChars == Range(DigitSeq)

UpperChars == Range(UpperSeq)

LowerChars == Range(LowerSeq)

LetterChars == UpperChars \cup LowerChars

\* the characters re's [\s-] removes (whitespace and the hyphen)
SeparatorChars == {" ", "-"}

\* what an uppercased candidate can be made of
Chars == DigitChars \cup UpperChars \cup SeparatorChars

IndexIn(seq, c) == CHOOSE i \in DOMAIN seq : seq[i] = c

\* int(c) for a digit character
int(c) == IndexIn(DigitSeq, c) - 1

\* str.upper() on one character
UpperChar(c) == IF c \in LowerChars THEN UpperSeq[IndexIn(LowerSeq, c)] ELSE c

\* the candidate left as matched
Mutant_upper(s) == s

upper(s) == [i \in DOMAIN s |-> UpperChar(s[i])]

\* str.isdigit(): non-empty and every character a digit
isdigit(s) == Len(s) > 0 /\ \A i \in DOMAIN s : s[i] \in DigitChars

\* str.isalpha(): non-empty and every character a letter
isalpha(s) == Len(s) > 0 /\ \A i \in DOMAIN s : s[i] \in LetterChars

\* s[a:b] with 0-based, half-open Python indices (0 <= a)
Slice(s, a, b) ==
    LET hi == IF b < Len(s) THEN b ELSE Len(s)
    IN  IF a >= hi THEN <<>> ELSE [i \in 1..(hi - a) |-> s[a + i]]

\* re.sub(r'[\s-]', '', s)
RECURSIVE StripSeparators(_)
StripSeparators(s) ==
    IF s = <<>> THEN <<>>
    ELSE IF Head(s) \in SeparatorChars THEN StripSeparators(Tail(s))
         ELSE <<Head(s)>> \o StripSeparators(Tail(s))

-----------------------------------------------------------------------------
(* AuMedicareProviderRecognizer                                            *)

\* the location characters without the exclusions
Mutant_PRACTICE_LOCATION_CHARS == DigitChars \cup UpperChars

\* PRACTICE_LOCATION_CHARS = set("0123456789ABCDEFGHJKLMNPQRTUVWXY")
PRACTICE_LOCATION_CHARS ==
    DigitChars \cup (UpperChars \ {"I", "O", "S", "Z"})

\* CHECK_DIGITS: remainder r maps to AuMedicareProvider_CHECK_DIGITS[r + 1]
AuMedicareProvider_CHECK_DIGITS ==
    <<"Y", "X", "W", "T", "L", "K", "J", "H", "F", "B", "A">>

\* the string the char_to_num loop walks, numbering its characters from 10
PlvLetters ==
    <<"A", "B", "C", "D", "E", "F", "G", "H", "J", "K", "L",
      "M", "N", "P", "Q", "R", "T", "U", "V", "W", "X", "Y">>

\* letters numbered from 10 over the whole alphabet, I, O and S included
Mutant_PracticeLocationValue(c) ==
    IF c \in DigitChars THEN int(c)
    ELSE IF c \in UpperChars THEN 10 + (IndexIn(UpperSeq, c) - 1)
         ELSE 0

\* char_to_num.get(c, 0) for a non-digit c, int(c) for a digit
PracticeLocationValue(c) ==
    IF c \in DigitChars THEN int(c)
    ELSE IF c \in Range(PlvLetters) THEN 10 + (IndexIn(PlvLetters, c) - 1)
         ELSE 0

\* the check digit with the weight of the third digit mistaken (7 for 8)
Mutant_provider_check_digit(provider_stem, practice_location_char) ==
    LET plv   == PracticeLocationValue(practice_location_char)
        total == int(provider_stem[1]) * 3 + int(provider_stem[2]) * 5
                 + int(provider_stem[3]) * 7 + int(provider_stem[4]) * 4
                 + int(provider_stem[5]) * 2 + int(provider_stem[6]) * 1
                 + plv * 6
    IN  AuMedicareProvider_CHECK_DIGITS[(total % 11) + 1]

AuMedicareProvider_calculate_check_digit(provider_stem, practice_location_char) ==
    LET plv   == PracticeLocationValue(practice_location_char)
        total == int(provider_stem[1]) * 3 + int(provider_stem[2]) * 5
                 + int(provider_stem[3]) * 8 + int(provider_stem[4]) * 4
                 + int(provider_stem[5]) * 2 + int(provider_stem[6]) * 1
                 + plv * 6
        remainder == total % 11
    IN  IF remainder \in 0..10
        THEN AuMedicareProvider_CHECK_DIGITS[remainder + 1]
        ELSE ""

_is_valid_provider_number(provider_number) ==
    IF Len(provider_number) # 8 THEN FALSE
    ELSE LET provider_stem          == Slice(provider_number, 0, 6)
             practice_location_char == provider_number[7]
             check_digit            == provider_number[8]
         IN  IF ~isdigit(provider_stem) THEN FALSE
             ELSE IF practice_location_char \notin PRACTICE_LOCATION_CHARS THEN FALSE
             ELSE AuMedicareProvider_calculate_check_digit(
                      provider_stem, practice_location_char) = check_digit

-----------------------------------------------------------------------------
(* AuCrnRecognizer                                                         *)

AuCrn_STATE_CODES == {"2", "3", "4", "5", "6", "7"}

AuCrn_CHECK_DIGITS == {"A", "B", "C", "H", "J", "K", "L", "S", "T", "V", "X"}

\* REMAINDER_TO_CHECK_DIGIT: remainder r maps to REMAINDER_TO_CHECK_DIGIT[r + 1]
REMAINDER_TO_CHECK_DIGIT ==
    <<"X", "V", "T", "S", "L", "K", "J", "H", "C", "B", "A">>

\* the weighted sum with the 0-based index taken for the position
RECURSIVE Mutant_CrnWeightedSum(_, _)
Mutant_CrnWeightedSum(number_part, position) ==
    IF position > Len(number_part) THEN 0
    ELSE (IF number_part[position] \in DigitChars
          THEN int(number_part[position]) * 2 ^ (10 - (position - 1))
          ELSE 0)
         + Mutant_CrnWeightedSum(number_part, position + 1)

\* the weighted sum leaving out the state code (the first position)
RECURSIVE Mutant_CrnWeightedSum_no_state(_, _)
Mutant_CrnWeightedSum_no_state(number_part, position) ==
    IF position > Len(number_part) THEN 0
    ELSE (IF number_part[position] \in DigitChars /\ position > 1
          THEN int(number_part[position]) * 2 ^ (10 - position)
          ELSE 0)
         + Mutant_CrnWeightedSum_no_state(number_part, position + 1)

\* the loop of _calculate_check_digit over positions i..9 (1-based)
RECURSIVE CrnWeightedSum(_, _)
CrnWeightedSum(number_part, position) ==
    IF position > Len(number_part) THEN 0
    ELSE (IF number_part[position] \in DigitChars
          THEN int(number_part[position]) * 2 ^ (10 - position)
          ELSE 0)
         + CrnWeightedSum(number_part, position + 1)

\* returns one character, or "" for Python's ''
AuCrn_calculate_check_digit(number_part) ==
    IF Len(number_part) # 9 THEN ""
    ELSE LET remainder == CrnWeightedSum(number_part, 1) % 11
         IN  IF remainder \in 0..10
             THEN REMAINDER_TO_CHECK_DIGIT[remainder + 1]
             ELSE ""

\* the validator without the comparison of the computed check digit
Mutant_is_valid_crn(crn) ==
    LET clean_crn == StripSeparators(crn)
    IN  /\ Len(clean_crn) \in {10, 11}
        /\ clean_crn[1] \in AuCrn_STATE_CODES
        /\ isdigit(Slice(clean_crn, 1, 9))
        /\ clean_crn[10] \in AuCrn_CHECK_DIGITS
        /\ Len(clean_crn) = 11 => isalpha(<<clean_crn[11]>>)

_is_valid_crn(crn) ==
    LET clean_crn == StripSeparators(crn)
    IN  IF Len(clean_crn) < 10 \/ Len(clean_crn) > 11 THEN FALSE
        ELSE LET state_code  == clean_crn[1]
                 digits      == Slice(clean_crn, 1, 9)
                 check_digit == clean_crn[10]
             IN  IF state_code \notin AuCrn_STATE_CODES THEN FALSE
                 ELSE IF ~isdigit(digits) THEN FALSE
                 ELSE IF check_digit \notin AuCrn_CHECK_DIGITS THEN FALSE
                 ELSE IF Len(clean_crn) = 11
                         /\ ~(isalpha(<<clean_crn[11]>>) \/ clean_crn[11] = " ")
                      THEN FALSE
                 ELSE AuCrn_calculate_check_digit(<<state_code>> \o digits)
                          = check_digit

-----------------------------------------------------------------------------
(* AuDvaRecognizer                                                         *)

AuDva_STATE_CODES == {"N", "V", "Q", "W", "S", "T"}

\* the for loop counting the war code: returns alpha_count
RECURSIVE CountWarCode(_, _)
CountWarCode(work_string, alpha_count) ==
    IF alpha_count >= Len(work_string) THEN alpha_count
    ELSE LET char == work_string[alpha_count + 1]
         IN  IF char \in LetterChars
             THEN CountWarCode(work_string, alpha_count + 1)
             ELSE IF char = " " /\ alpha_count = 0 THEN 1
             ELSE alpha_count

\* the war code rule taking a last letter for the dependent code only in
\* numbers of more than four characters
Mutant_war_code_dependent(dva_number) ==
    LET tail == Slice(dva_number, 1, Len(dva_number))
        has_dependent ==
            Len(tail) > 0 /\ tail[Len(tail)] \in LetterChars /\ Len(dva_number) > 4
        digits_before_last ==
            \E i \in 1..(Len(tail) - 1) : tail[i] \in DigitChars
        work_string ==
            IF has_dependent /\ digits_before_last
            THEN Slice(tail, 0, Len(tail) - 1)
            ELSE tail
    IN  IF Len(work_string) = 0 THEN FALSE
        ELSE LET alpha_count   == CountWarCode(work_string, 0)
                 remaining     == Slice(work_string, alpha_count, Len(work_string))
                 numeric_count == Len(remaining)
             IN  IF ~isdigit(remaining) THEN FALSE
                 ELSE IF alpha_count = 1
                      THEN numeric_count >= 1 /\ numeric_count <= 6
                 ELSE IF alpha_count = 2
                      THEN numeric_count >= 1 /\ numeric_count <= 5
                 ELSE IF alpha_count = 3
                      THEN numeric_count >= 1 /\ numeric_count <= 4
                 ELSE FALSE

\* the war code rule with war codes of up to four letters let through
Mutant_validate_war_code_pattern(dva_number) ==
    LET tail == Slice(dva_number, 1, Len(dva_number))
        stripped ==
            IF Len(tail) > 0 /\ tail[Len(tail)] \in LetterChars /\ Len(dva_number) > 3
               /\ \E i \in 1..(Len(tail) - 1) : tail[i] \in DigitChars
            THEN Slice(tail, 0, Len(tail) - 1)
            ELSE tail
        alpha_count == CountWarCode(stripped, 0)
        remaining   == Slice(stripped, alpha_count, Len(stripped))
    IN  /\ Len(stripped) > 0
        /\ isdigit(remaining)
        /\ alpha_count \in 1..4
        /\ Len(remaining) <= 7 - alpha_count \/ alpha_count = 4

_validate_war_code_pattern(dva_number) ==
    LET tail == Slice(dva_number, 1, Len(dva_number))
        has_dependent ==
            Len(tail) > 0 /\ tail[Len(tail)] \in LetterChars /\ Len(dva_number) > 3
        digits_before_last ==
            \E i \in 1..(Len(tail) - 1) : tail[i] \in DigitChars
        work_string ==
            IF has_dependent /\ digits_before_last
            THEN Slice(tail, 0, Len(tail) - 1)
            ELSE tail
    IN  IF Len(work_string) = 0 THEN FALSE
        ELSE LET alpha_count   == CountWarCode(work_string, 0)
                 remaining     == Slice(work_string, alpha_count, Len(work_string))
                 numeric_count == Len(remaining)
             IN  IF ~isdigit(remaining) THEN FALSE
                 ELSE IF alpha_count = 1
                      THEN numeric_count >= 1 /\ numeric_count <= 6
                 ELSE IF alpha_count = 2
                      THEN numeric_count >= 1 /\ numeric_count <= 5
                 ELSE IF alpha_count = 3
                      THEN numeric_count >= 1 /\ numeric_count <= 4
                 ELSE FALSE

\* the validator reduced to the length check and the state code
Mutant_dva_length_and_state(dva_number) ==
    /\ Len(dva_number) >= 3 /\ Len(dva_number) <= 9
    /\ dva_number[1] \in AuDva_STATE_CODES

\* the length check with both bounds off by one: lengths 3 and 9 cut short
Mutant_is_valid_dva_number(dva_number) ==
    IF Len(dva_number) <= 3 \/ Len(dva_number) >= 9 THEN FALSE
    ELSE IF dva_number[1] \notin AuDva_STATE_CODES THEN FALSE
    ELSE IF ~(dva_number[2] \in LetterChars \/ dva_number[2] = " ") THEN FALSE
    ELSE IF ~(\E i \in 2..Len(dva_number) : dva_number[i] \in DigitChars) THEN FALSE
    ELSE _validate_war_code_pattern(dva_number)

_is_valid_dva_number(dva_number) ==
    IF Len(dva_number) < 3 \/ Len(dva_number) > 9 THEN FALSE
    ELSE IF dva_number[1] \notin AuDva_STATE_CODES THEN FALSE
    ELSE IF Len(dva_number) = 9 /\ dva_number[9] \notin LetterChars THEN FALSE
    ELSE IF ~(dva_number[2] \in LetterChars \/ dva_number[2] = " ") THEN FALSE
    ELSE IF ~(\E i \in 2..Len(dva_number) : dva_number[i] \in DigitChars) THEN FALSE
    ELSE _validate_war_code_pattern(dva_number)

-----------------------------------------------------------------------------
(* AuPassportRecognizer                                                    *)

\* the alphabet with Q left in
Mutant_VALID_LETTERS == UpperChars \ {"O", "S", "I"}

\* VALID_LETTERS = set("ABCDEFGHJKLMNPRTUVWXYZ")
VALID_LETTERS == UpperChars \ {"O", "S", "Q", "I"}

_is_valid_passport_number(passport_number) ==
    IF Len(passport_number) < 8 \/ Len(passport_number) > 9 THEN FALSE
    ELSE LET n       == IF Len(passport_number) = 8 THEN 1 ELSE 2
             letters == Slice(passport_number, 0, n)
             digits  == Slice(passport_number, n, Len(passport_number))
         IN  IF \E i \in DOMAIN letters : letters[i] \notin VALID_LETTERS THEN FALSE
             ELSE IF Len(digits) # 7 \/ ~isdigit(digits) THEN FALSE
             ELSE TRUE

-----------------------------------------------------------------------------
(* AuDriversLicenseRecognizer                                              *)

\* digit_counts[d] of the counting loop
CountOf(number, d) == Cardinality({i \in DOMAIN number : number[i] = d})

\* the uniformity test with "at least 80%" for "more than 80%"
Mutant_is_too_uniform_threshold(number) ==
    LET distinct   == Range(number)
        ascending  == \A i \in 2..Len(number) : int(number[i]) = int(number[i - 1]) + 1
        descending == \A i \in 2..Len(number) : int(number[i]) = int(number[i - 1]) - 1
        max_count  == CHOOSE m \in {CountOf(number, d) : d \in distinct} :
                          \A d \in distinct : CountOf(number, d) <= m
    IN  \/ Cardinality(distinct) = 1
        \/ Len(number) <= 7 /\ Len(number) >= 6 /\ (ascending \/ descending)
        \/ Cardinality(distinct) <= 2 /\ Len(number) >= 8
           /\ max_count * 10 >= 8 * Len(number)

\* the uniformity test without the rule for one repeated digit
Mutant_is_too_uniform(number) ==
    LET distinct   == Range(number)
        ascending  == \A i \in 2..Len(number) : int(number[i]) = int(number[i - 1]) + 1
        descending == \A i \in 2..Len(number) : int(number[i]) = int(number[i - 1]) - 1
    IN  Len(number) <= 7 /\ Len(number) >= 6 /\ (ascending \/ descending)

_is_too_uniform(number) ==
    LET distinct   == Range(number)
        ascending  == \A i \in 2..Len(number) : int(number[i]) = int(number[i - 1]) + 1
        descending == \A i \in 2..Len(number) : int(number[i]) = int(number[i - 1]) - 1
        max_count  == CHOOSE m \in {CountOf(number, d) : d \in distinct} :
                          \A d \in distinct : CountOf(number, d) <= m
    IN  IF Cardinality(distinct) = 1 THEN TRUE
        ELSE IF Len(number) <= 7 /\ Len(number) >= 6 /\ (ascending \/ descending)
             THEN TRUE
        \* max_count / len(number) > 0.8, in integers
        ELSE IF Cardinality(distinct) <= 2 /\ Len(number) >= 8
                /\ max_count * 10 > 8 * Len(number)
             THEN TRUE
        ELSE FALSE

_is_numeric_format(clean_number) ==
    LET length == Len(clean_number)
    IN  IF ~isdigit(clean_number) THEN FALSE
        ELSE IF length < 6 \/ length > 10 THEN FALSE
        ELSE IF length <= 7
             THEN IF _is_too_uniform(clean_number) THEN FALSE
                  ELSE IF length = 6
                          /\ (clean_number = <<"1", "2", "3", "4", "5", "6">>
                              \/ clean_number = <<"6", "5", "4", "3", "2", "1">>)
                       THEN FALSE
                  ELSE TRUE
        ELSE IF _is_too_uniform(clean_number) THEN FALSE
        ELSE TRUE

\* the shapes with the uniformity test applied to their digits
Mutant_alphanumeric_not_uniform(clean_number) ==
    LET length == Len(clean_number)
        digits == SelectSeq(clean_number, LAMBDA c : c \in DigitChars)
    IN  /\ length = 6
        /\ \/ clean_number[1] \in LetterChars /\ isdigit(Slice(clean_number, 1, length))
           \/ isalpha(Slice(clean_number, 0, 2)) /\ isdigit(Slice(clean_number, 2, length))
           \/ isdigit(Slice(clean_number, 0, 4)) /\ isalpha(Slice(clean_number, 4, length))
        /\ Cardinality(Range(digits)) > 1

\* the shapes without the length test: a letter and any number of digits
Mutant_is_alphanumeric_format(clean_number) ==
    LET length == Len(clean_number)
    IN  \/ clean_number[1] \in LetterChars /\ isdigit(Slice(clean_number, 1, length))
        \/ isalpha(Slice(clean_number, 0, 2)) /\ isdigit(Slice(clean_number, 2, length))
        \/ isdigit(Slice(clean_number, 0, 4)) /\ isalpha(Slice(clean_number, 4, length))

_is_alphanumeric_format(clean_number) ==
    LET length == Len(clean_number)
    IN  IF length = 6 /\ clean_number[1] \in LetterChars
           /\ isdigit(Slice(clean_number, 1, length))
        THEN TRUE
        ELSE IF length = 6 /\ isalpha(Slice(clean_number, 0, 2))
                /\ isdigit(Slice(clean_number, 2, length))
        THEN TRUE
        ELSE IF length = 6 /\ isdigit(Slice(clean_number, 0, 4))
                /\ isalpha(Slice(clean_number, 4, length))
        THEN TRUE
        ELSE FALSE

_is_valid_license_number(license_number) ==
    LET clean_number == StripSeparators(license_number)
    IN  IF Len(clean_number) < 6 \/ Len(clean_number) > 10 THEN FALSE
        ELSE IF _is_numeric_format(clean_number) THEN TRUE
        ELSE IF _is_alphanumeric_format(clean_number) THEN TRUE
        ELSE FALSE

-----------------------------------------------------------------------------
(* The compiled patterns (re.IGNORECASE) and re's finditer                 *)
(* Positions are Python offsets: position p lies before text[p + 1].       *)

At(text, p) == text[p + 1]

\* \w on the characters of the model
WordChar(c) == c \in DigitChars \cup LetterChars \cup {"_"}

\* \b at offset p
WordBoundary(text, p) ==
    (p > 0 /\ WordChar(At(text, p - 1))) # (p < Len(text) /\ WordChar(At(text, p)))

\* every character of text[a:b] lies in the class, and text[a:b] is inside text
AllIn(text, a, b, class) ==
    b <= Len(text) /\ \A q \in a..(b - 1) : At(text, q) \in class

AlnumChars == DigitChars \cup LetterChars

\* [\s-]
SepClass == SeparatorChars

\* [A-Z ] under IGNORECASE
LetterOrSpace == LetterChars \cup {" "}

\* the end of the match a backtracking search prefers: the candidate ends are
\* ranked by the order in which the search tries them (highest rank first)
Preferred(cands) ==
    IF cands = {} THEN -1
    ELSE (CHOOSE c \in cands : \A d \in cands : d[1] <= c[1])[2]

\* r'\b\d{6}[0-9A-Z][A-Z]\b'
AuMedicareProvider_pattern(text, p) ==
    IF WordBoundary(text, p)
       /\ AllIn(text, p, p + 6, DigitChars)
       /\ AllIn(text, p + 6, p + 7, AlnumChars)
       /\ AllIn(text, p + 7, p + 8, LetterChars)
       /\ WordBoundary(text, p + 8)
    THEN p + 8 ELSE -1

\* r'\b[NVQWST][A-Z ]?[A-Z0-9]{1,6}[A-Z]?\b'
AuDva_pattern(text, p) ==
    LET states == AuDva_STATE_CODES \cup {"n", "v", "q", "w", "s", "t"}
        cands ==
            {<<o2 * 100 + k * 2 + o3, p + 1 + o2 + k + o3>> :
                <<o2, k, o3>> \in
                    {t \in (0..1) \X (1..6) \X (0..1) :
                        /\ AllIn(text, p + 1, p + 1 + t[1], LetterOrSpace)
                        /\ AllIn(text, p + 1 + t[1], p + 1 + t[1] + t[2], AlnumChars)
                        /\ AllIn(text, p + 1 + t[1] + t[2],
                                 p + 1 + t[1] + t[2] + t[3], LetterChars)
                        /\ WordBoundary(text, p + 1 + t[1] + t[2] + t[3])}}
    IN  IF WordBoundary(text, p) /\ AllIn(text, p, p + 1, states)
        THEN Preferred(cands) ELSE -1

\* the pattern its comment describes: three groups of three digits after the
\* state code
Mutant_AuCrn_pattern(text, p) ==
    LET checks == AuCrn_CHECK_DIGITS
                  \cup {"a", "b", "c", "h", "j", "k", "l", "s", "t", "v", "x"}
        cands ==
            {<<t[1] * 8 + t[2] * 4 + t[3] * 2 + t[4],
               p + 1 + t[1] + 3 + t[2] + 3 + t[3] + 3 + 1 + t[4]>> :
                t \in {u \in (0..1) \X (0..1) \X (0..1) \X (0..1) :
                    LET a == p + 1 + u[1]
                        b == a + 3 + u[2]
                        c == b + 3 + u[3]
                        d == c + 3
                    IN  /\ AllIn(text, p + 1, a, SepClass)
                        /\ AllIn(text, a, a + 3, DigitChars)
                        /\ AllIn(text, a + 3, b, SepClass)
                        /\ AllIn(text, b, b + 3, DigitChars)
                        /\ AllIn(text, b + 3, c, SepClass)
                        /\ AllIn(text, c, d, DigitChars)
                        /\ AllIn(text, d, d + 1, checks)
                        /\ AllIn(text, d + 1, d + 1 + u[4], LetterOrSpace)
                        /\ WordBoundary(text, d + 1 + u[4])}}
    IN  IF WordBoundary(text, p) /\ AllIn(text, p, p + 1, AuCrn_STATE_CODES)
        THEN Preferred(cands) ELSE -1

\* r'\b[234567][\s-]?(?:\d{3}[\s-]?\d{3}[\s-]?\d{2}|\d{8})[ABCHJKLSTVX][A-Z ]?\b'
\* (the alternative \d{8} is the first one with both separators absent)
AuCrn_pattern(text, p) ==
    LET checks == AuCrn_CHECK_DIGITS
                  \cup {"a", "b", "c", "h", "j", "k", "l", "s", "t", "v", "x"}
        cands ==
            {<<t[1] * 8 + t[2] * 4 + t[3] * 2 + t[4],
               p + 1 + t[1] + 3 + t[2] + 3 + t[3] + 2 + 1 + t[4]>> :
                t \in {u \in (0..1) \X (0..1) \X (0..1) \X (0..1) :
                    LET a == p + 1 + u[1]
                        b == a + 3 + u[2]
                        c == b + 3 + u[3]
                        d == c + 2
                    IN  /\ AllIn(text, p + 1, a, SepClass)
                        /\ AllIn(text, a, a + 3, DigitChars)
                        /\ AllIn(text, a + 3, b, SepClass)
                        /\ AllIn(text, b, b + 3, DigitChars)
                        /\ AllIn(text, b + 3, c, SepClass)
                        /\ AllIn(text, c, d, DigitChars)
                        /\ AllIn(text, d, d + 1, checks)
                        /\ AllIn(text, d + 1, d + 1 + u[4], LetterOrSpace)
                        /\ WordBoundary(text, d + 1 + u[4])}}
    IN  IF WordBoundary(text, p) /\ AllIn(text, p, p + 1, AuCrn_STATE_CODES)
        THEN Preferred(cands) ELSE -1

\* the passport pattern without its closing word boundary
Mutant_AuPassport_pattern(text, p) ==
    LET cands ==
            {<<n, p + n + 7>> :
                n \in {m \in 1..2 :
                    /\ AllIn(text, p, p + m, LetterChars)
                    /\ AllIn(text, p + m, p + m + 7, DigitChars)}}
    IN  IF WordBoundary(text, p) THEN Preferred(cands) ELSE -1

\* r'\b[A-Za-z]{1,2}\d{7}\b'
AuPassport_pattern(text, p) ==
    LET cands ==
            {<<n, p + n + 7>> :
                n \in {m \in 1..2 :
                    /\ AllIn(text, p, p + m, LetterChars)
                    /\ AllIn(text, p + m, p + m + 7, DigitChars)
                    /\ WordBoundary(text, p + m + 7)}}
    IN  IF WordBoundary(text, p) THEN Preferred(cands) ELSE -1

\* the six alternatives of the driver's license pattern, in their order
AuDriversLicense_pattern(text, p) ==
    LET D(a, b) == AllIn(text, a, b, DigitChars)
        L(a, b) == AllIn(text, a, b, LetterChars)
        S(a)    == AllIn(text, a, a + 1, SepClass)
        Alt(rank, end, ok) == IF ok THEN {<<rank, end>>} ELSE {}
        alts ==
            Alt(20, p + 6, L(p, p + 1) /\ D(p + 1, p + 6))
            \cup Alt(19, p + 6, L(p, p + 2) /\ D(p + 2, p + 6))
            \cup Alt(18, p + 6, D(p, p + 4) /\ L(p + 4, p + 6))
            \cup Alt(17, p + 11,
                     D(p, p + 3) /\ S(p + 3) /\ D(p + 4, p + 7) /\ S(p + 7)
                     /\ D(p + 8, p + 11))
            \cup Alt(16, p + 13,
                     D(p, p + 1) /\ S(p + 1) /\ D(p + 2, p + 5) /\ S(p + 5)
                     /\ D(p + 6, p + 9) /\ S(p + 9) /\ D(p + 10, p + 13))
            \cup {<<k, p + k>> : k \in {j \in 6..10 : D(p, p + j)}}
        cands == {c \in alts : WordBoundary(text, c[2])}
    IN  IF WordBoundary(text, p) THEN Preferred(cands) ELSE -1

\* pattern.match at offset p for the recognizer of entity type r: the end
\* offset of the match, or -1
PatternMatchAt(r, text, p) ==
    CASE r = "AU_MEDICAREPROVIDER" -> AuMedicareProvider_pattern(text, p)
      [] r = "AU_DVA"              -> AuDva_pattern(text, p)
      [] r = "AU_CRN"              -> AuCrn_pattern(text, p)
      [] r = "AU_PASSPORT"         -> AuPassport_pattern(text, p)
      [] r = "AU_DRIVERSLICENSE"   -> AuDriversLicense_pattern(text, p)

\* a scan resuming one character after the start of the previous match
RECURSIVE Mutant_finditer(_, _, _)
Mutant_finditer(r, text, pos) ==
    LET starts == {p \in pos..Len(text) : PatternMatchAt(r, text, p) >= 0}
    IN  IF starts = {} THEN <<>>
        ELSE LET start == CHOOSE p \in starts : \A q \in starts : p <= q
                 end   == PatternMatchAt(r, text, start)
             IN  <<<<start, end>>>> \o Mutant_finditer(r, text, start + 1)

\* pattern.finditer(text) from offset pos on: the matches <<start, end>>,
\* leftmost first, each search resuming at the end of the previous match
RECURSIVE finditer(_, _, _)
finditer(r, text, pos) ==
    LET starts == {p \in pos..Len(text) : PatternMatchAt(r, text, p) >= 0}
    IN  IF starts = {} THEN <<>>
        ELSE LET start == CHOOSE p \in starts : \A q \in starts : p <= q
                 end   == PatternMatchAt(r, text, start)
             IN  <<<<start, end>>>> \o finditer(r, text, end)

-----------------------------------------------------------------------------
(* analyze() of the five document recognizers                              *)

EntityTypes ==
    {"PHONE_NUMBER", "AU_MEDICAREPROVIDER", "AU_DVA", "AU_CRN", "AU_PASSPORT",
     "AU_DRIVERSLICENSE"}

DocumentTypes == EntityTypes \ {"PHONE_NUMBER"}

\* SCORE of each recognizer class, in tenths
EnhancedPhone_SCORE == 7

AuMedicareProvider_SCORE == 9

AuDva_SCORE == 9

AuCrn_SCORE == 9

AuPassport_SCORE == 9

AuDriversLicense_SCORE == 8

\* every recognizer given the score of the document recognizers
Mutant_SCORE(r) == AuCrn_SCORE

SCORE(r) ==
    CASE r = "PHONE_NUMBER"        -> EnhancedPhone_SCORE
      [] r = "AU_MEDICAREPROVIDER" -> AuMedicareProvider_SCORE
      [] r = "AU_DVA"              -> AuDva_SCORE
      [] r = "AU_CRN"              -> AuCrn_SCORE
      [] r = "AU_PASSPORT"         -> AuPassport_SCORE
      [] r = "AU_DRIVERSLICENSE"   -> AuDriversLicense_SCORE

\* the structural validator each analyze() applies to match.group().upper()
Validator(r, candidate) ==
    CASE r = "AU_MEDICAREPROVIDER" -> _is_valid_provider_number(candidate)
      [] r = "AU_DVA"              -> _is_valid_dva_number(candidate)
      [] r = "AU_CRN"              -> _is_valid_crn(candidate)
      [] r = "AU_PASSPORT"         -> _is_valid_passport_number(candidate)
      [] r = "AU_DRIVERSLICENSE"   -> _is_valid_license_number(candidate)

\* RecognizerResult(entity_type=..., start=..., end=..., score=self.SCORE, ...)
RecognizerResult(r, start, end, explanation) ==
    [entity_type |-> r, start |-> start, end |-> end, score |-> SCORE(r),
     explanation |-> explanation]

\* the loop "for match in self.pattern.finditer(text)": results.append on a
\* valid candidate, nothing on an invalid one
\* the loop appending every candidate, validated or not
Mutant_AppendValid(r, text, matches) ==
    [i \in DOMAIN matches |-> RecognizerResult(r, matches[i][1], matches[i][2], r)]

RECURSIVE AppendValid(_, _, _)
AppendValid(r, text, matches) ==
    IF matches = <<>> THEN <<>>
    ELSE LET match     == Head(matches)
             candidate == upper(Slice(text, match[1], match[2]))
         IN  (IF Validator(r, candidate)
              THEN <<RecognizerResult(r, match[1], match[2], r)>>
              ELSE <<>>)
             \o AppendValid(r, text, Tail(matches))

\* analyze without the test of entities
Mutant_DocumentAnalyze(r, texttype, text, requested) ==
    IF texttype # "str"
    THEN [pc |-> "raised", results |-> <<>>, exc |-> "TypeError"]
    ELSE [pc |-> "returned",
          results |-> AppendValid(r, text, finditer(r, text, 0)),
          exc |-> ""]

\* the outcome of analyze(text, entities) of the document recognizer of type
\* r: finditer raises TypeError on a text that is no str
DocumentAnalyze(r, texttype, text, requested) ==
    IF r \notin requested
    THEN [pc |-> "returned", results |-> <<>>, exc |-> ""]
    ELSE IF texttype # "str"
    THEN [pc |-> "raised", results |-> <<>>, exc |-> "TypeError"]
    ELSE [pc |-> "returned",
          results |-> AppendValid(r, text, finditer(r, text, 0)),
          exc |-> ""]

-----------------------------------------------------------------------------
(* EnhancedPhoneRecognizer                                                 *)

DEFAULT_SUPPORTED_REGIONS ==
    <<"US", "UK", "DE", "FE", "IL", "IN", "CA", "BR", "AU">>

\* sorted(..., key=...) on the matches of one region, which the matcher
\* yields left to right
RECURSIVE SortSpans(_)
SortSpans(spans) ==
    IF spans = {} THEN <<>>
    ELSE LET first == CHOOSE m \in spans :
                          \A n \in spans : m[1] < n[1] \/ (m[1] = n[1] /\ m[2] <= n[2])
         IN  <<first>> \o SortSpans(spans \ {first})

\* phonenumbers.PhoneNumberMatcher(text, region, leniency): the matches the
\* library yields for the region with index i
PhoneNumberMatcher(lib, i) ==
    SortSpans({<<m[2], m[3]>> : m \in {n \in lib.matches : n[1] = i}})

\* the inner loop dropping the matches whose re-parsing fails
RECURSIVE Mutant_PhoneRegionResults(_, _, _)
Mutant_PhoneRegionResults(lib, region, matches) ==
    IF matches = <<>> THEN <<>>
    ELSE LET match == Head(matches)
         IN  (IF match \in lib.unparsable THEN <<>>
              ELSE <<RecognizerResult("PHONE_NUMBER", match[1], match[2],
                                      lib.detected)>>)
             \o Mutant_PhoneRegionResults(lib, region, Tail(matches))

\* the body of the inner loop: the result for one match, whose explanation
\* names the region of the re-parsed number, or the configured region when
\* phonenumbers.parse raises NumberParseException
RECURSIVE PhoneRegionResults(_, _, _)
PhoneRegionResults(lib, region, matches) ==
    IF matches = <<>> THEN <<>>
    ELSE LET match == Head(matches)
             region_code ==
                 IF match \in lib.unparsable THEN region ELSE lib.detected
         IN  <<RecognizerResult("PHONE_NUMBER", match[1], match[2], region_code)>>
             \o PhoneRegionResults(lib, region, Tail(matches))

\* the outer loop "for region in self.supported_regions", from index i on
RECURSIVE PhoneAllResults(_, _, _)
PhoneAllResults(lib, supported_regions, i) ==
    IF i > Len(supported_regions) THEN <<>>
    ELSE PhoneRegionResults(lib, supported_regions[i], PhoneNumberMatcher(lib, i))
         \o PhoneAllResults(lib, supported_regions, i + 1)

\* RecognizerResult.__eq__ (and __hash__): type, score, start and end
SameResult(a, b) ==
    /\ a.entity_type = b.entity_type
    /\ a.score = b.score
    /\ a.start = b.start
    /\ a.end = b.end

\* a set in which a result added later replaces an equal one
RECURSIVE Mutant_SetOf(_, _)
Mutant_SetOf(rs, kept) ==
    IF rs = <<>> THEN kept
    ELSE Mutant_SetOf(Tail(rs),
                      [i \in DOMAIN kept |->
                          IF SameResult(kept[i], Head(rs)) THEN Head(rs) ELSE kept[i]]
                      \o (IF \E i \in DOMAIN kept : SameResult(kept[i], Head(rs))
                          THEN <<>> ELSE <<Head(rs)>>))

\* list(set(results)): of equal results the set keeps the one added first
RECURSIVE SetOf(_, _)
SetOf(rs, kept) ==
    IF rs = <<>> THEN kept
    ELSE IF \E i \in DOMAIN kept : SameResult(kept[i], Head(rs))
         THEN SetOf(Tail(rs), kept)
         ELSE SetOf(Tail(rs), Append(kept, Head(rs)))

\* sorted(results, key=lambda x: (-x.score, x.start, -(x.end - x.start)))
KeyLeq(a, b) ==
    \/ a.score > b.score
    \/ a.score = b.score /\ a.start < b.start
    \/ a.score = b.score /\ a.start = b.start
       /\ (a.end - a.start) >= (b.end - b.start)

RECURSIVE SortResults(_)
SortResults(rs) ==
    IF rs = <<>> THEN <<>>
    ELSE LET i == CHOOSE j \in DOMAIN rs : \A k \in DOMAIN rs : KeyLeq(rs[j], rs[k])
         IN  <<rs[i]>>
             \o SortResults([k \in 1..(Len(rs) - 1) |-> IF k < i THEN rs[k] ELSE rs[k + 1]])

\* RecognizerResult.contained_in
contained_in(a, b) == a.start >= b.start /\ a.end <= b.end

RECURSIVE FilterContained(_, _)
FilterContained(rs, filtered_results) ==
    IF rs = <<>> THEN filtered_results
    ELSE LET result == Head(rs)
             to_keep ==
                 /\ result.score # 0
                 /\ ~\E i \in DOMAIN filtered_results :
                        SameResult(filtered_results[i], result)
                 /\ ~\E i \in DOMAIN filtered_results :
                        /\ contained_in(result, filtered_results[i])
                        /\ result.entity_type = filtered_results[i].entity_type
         IN  FilterContained(Tail(rs),
                             IF to_keep THEN Append(filtered_results, result)
                             ELSE filtered_results)

\* the results returned as collected
Mutant_remove_duplicates(rs) == rs

\* presidio's EntityRecognizer.remove_duplicates
remove_duplicates(rs) == FilterContained(SortResults(SetOf(rs, <<>>)), <<>>)

\* the outcome of EnhancedPhoneRecognizer.analyze(text, entities): entities
\* is not read.  The matcher takes None for the empty text (it then yields no
\* match) and fails with TypeError on any other text that is no str
EnhancedPhoneAnalyze(lib, supported_regions, texttype, requested) ==
    IF texttype \notin {"str", "NoneType"}
    THEN [pc |-> "raised", results |-> <<>>, exc |-> "TypeError"]
    ELSE [pc |-> "returned",
          results |-> remove_duplicates(PhoneAllResults(lib, supported_regions, 1)),
          exc |-> ""]

-----------------------------------------------------------------------------
(* The recognizer objects                                                  *)

\* CONTEXT of each recognizer class
CONTEXT(r) ==
    CASE r = "PHONE_NUMBER" ->
             <<"phone", "number", "telephone", "cell", "cellphone", "mobile", "call">>
      [] r = "AU_MEDICAREPROVIDER" ->
             <<"provider", "medicare", "number", "practitioner", "doctor", "GP",
               "medical">>
      [] r = "AU_DVA" ->
             <<"dva", "veterans", "affairs", "file", "number", "veteran",
               "dependent">>
      [] r = "AU_CRN" ->
             <<"crn", "centrelink", "customer", "reference", "number">>
      [] r = "AU_PASSPORT" ->
             <<"passport", "number", "travel", "document", "identification", "ID">>
      [] r = "AU_DRIVERSLICENSE" ->
             <<"license", "licence", "driving", "driver", "drivers", "dl", "permit">>

\* __init__ with its default arguments: the attributes of the new object
\* (the compiled pattern is named by the entity type it recognizes)
__init__(r) ==
    IF r = "PHONE_NUMBER"
    THEN [supported_entities |-> {"PHONE_NUMBER"}, supported_language |-> "en",
          context |-> CONTEXT(r), supported_regions |-> DEFAULT_SUPPORTED_REGIONS,
          leniency |-> 1]
    ELSE [supported_entities |-> {r}, supported_language |-> "en",
          context |-> CONTEXT(r), pattern |-> r]

\* the list of the earlier call used again
Mutant_NewResults(returned_before) == returned_before

\* "results = []" at the head of analyze: the list a call fills is a new one,
\* whatever list an earlier call returned
NewResults(returned_before) == <<>>

-----------------------------------------------------------------------------
(* The calls the model makes: bounded samples of the arguments             *)

\* how many provider stems, CRN payloads and passport digit parts are sampled
MaxStem == 15

MaxCrn == 39

MaxPassport == 3

\* DVA candidates: war codes of 0..MaxWar letters, 0..MaxDigits digits
MaxWar == 4

MaxDigits == 7

\* license candidates: digit runs of 5..MaxRun digits
MaxRun == 11

\* at most this many matches of the phone library in one text
MaxPhoneMatches == 2

\* one recognizer object receives at most this many calls of analyze
MaxCalls == 3

\* the n decimal digits of v, most significant first
Decimal(v, n) == [i \in 1..n |-> DigitSeq[((v \div (10 ^ (n - i))) % 10) + 1]]

\* s with the character at (1-based) position i replaced by c
Subst(s, i, c) == [s EXCEPT ![i] = c]

Substitutions(s, cs) == {Subst(s, i, c) : i \in DOMAIN s, c \in cs}

Prefixes(s) == {Slice(s, 0, n) : n \in 0..Len(s)}

\* s with the separator c inserted before position i (0-based)
Insert(s, i, c) == Slice(s, 0, i) \o <<c>> \o Slice(s, i, Len(s))

Insertions(s, cs) == {Insert(s, i, c) : i \in 0..Len(s), c \in cs}

\* check characters tried: the 11 symbols of both tables and some others
CheckInputs ==
    Range(AuMedicareProvider_CHECK_DIGITS) \cup AuCrn_CHECK_DIGITS
    \cup {"0", "Z", " "}

StemInputs == {Decimal(123456 + n * 271829, 6) : n \in 0..MaxStem}

ProviderInputs ==
    {stem \o <<l, c>> : stem \in StemInputs, l \in Chars, c \in CheckInputs}
    \cup {t \o <<"A", c>> :
            t \in Substitutions(Decimal(123456, 6), {"A", " ", "-"}),
            c \in Range(AuMedicareProvider_CHECK_DIGITS)}
    \cup Prefixes(<<"1", "2", "3", "4", "5", "6", "A", "F", "F">>)

CrnPayloads ==
    {Decimal(307111942, 9)}
    \cup {Decimal((207111942 + n * 23456789) % 1000000000, 9) : n \in 0..MaxCrn}

CrnInputs ==
    {n \o <<c>> \o d : n \in CrnPayloads, c \in CheckInputs,
                       d \in {<<>>, <<"A">>, <<"Z">>, <<"5">>, <<"H", "H">>}}
    \cup UNION {Insertions(n \o <<"H">>, SeparatorChars) \cup Substitutions(n, {"A"}) :
                  n \in {Decimal(307111942, 9)}}
    \cup {Insert(Insert(Decimal(307111942, 9) \o <<"H">>, 6, c), 3, c) :
            c \in SeparatorChars}
    \cup Prefixes(Decimal(307111942, 9) \o <<"H">>)

\* a DVA-shaped candidate: state letter, w war-code letters (one space when
\* sp), k digits, and a dependent letter when dep
DvaShape(st, sp, w, k, dep) ==
    <<st>> \o (IF sp THEN <<" ">> ELSE [i \in 1..w |-> UpperSeq[2 + i]])
    \o [i \in 1..k |-> DigitSeq[i + 1]] \o (IF dep THEN <<"K">> ELSE <<>>)

DvaShapes ==
    {DvaShape(st, sp, w, k, dep) :
        st \in {"N", "T"}, sp \in BOOLEAN, w \in 0..MaxWar, k \in 0..MaxDigits,
        dep \in BOOLEAN}

DvaInputs ==
    DvaShapes
    \cup {<<"N", "X", "5">>, <<"N", "X", "5", "A">>, <<"W", " ", "1">>,
          <<"N", " ", "0", "2", "6", "0", "2", "7", "K">>}
    \cup UNION {Substitutions(s, {"A", "5", " ", "-", "V"}) :
                  s \in {t \in DvaShapes : t[1] = "N"}}

PassportDigitParts ==
    {Decimal(1234567 + n * 2718281, 7) : n \in 0..MaxPassport}
    \cup {Decimal(123456, 6), Decimal(12345678, 8),
          <<"1", "2", "3", "A", "5", "6", "7">>,
          <<"1", "2", "3", " ", "5", "6", "7">>}

PassportInputs ==
    {l \o d : l \in {<<a>> : a \in Chars} \cup {<<a, b>> : a \in Chars, b \in Chars},
              d \in PassportDigitParts}

\* digit runs: n digits starting at d0 and stepping by step (mod 10)
DigitRun(d0, step, n) == [i \in 1..n |-> DigitSeq[((d0 + step * (i - 1)) % 10) + 1]]

DigitRuns ==
    {DigitRun(d0, step, n) : d0 \in 0..9, step \in {-1, 0, 1}, n \in 5..MaxRun}

\* strings of a 1s and 2s with at most three 2s
TwoDigitMixes ==
    {[i \in 1..n |-> IF i \in twos THEN "2" ELSE "1"] :
        <<n, twos>> \in {t \in (6..10) \X SUBSET (1..10) :
                            t[2] \subseteq 1..t[1] /\ Cardinality(t[2]) <= 3}}

\* every string of 6 or 7 characters over one letter and one digit
LetterDigitShapes ==
    {[i \in 1..n |-> IF i \in ls THEN "A" ELSE "5"] :
        <<n, ls>> \in {t \in (6..7) \X SUBSET (1..7) : t[2] \subseteq 1..t[1]}}

LicenseInputs ==
    DigitRuns
    \cup UNION {Substitutions(r, {"7", "A"}) :
                  r \in {x \in DigitRuns : x[1] \in {"1", "6"}}}
    \cup TwoDigitMixes
    \cup LetterDigitShapes
    \cup UNION {Insertions(r, SeparatorChars) :
                  r \in {DigitRun(1, 1, 6), DigitRun(4, 1, 5), DigitRun(1, 1, 9),
                         DigitRun(3, 0, 10), <<"A", "1", "2", "3", "4", "5">>}}
    \cup {<<"1", "2", "3", " ", "4", "5", "6", " ", "7", "8", "9">>,
          <<"1", "-", "2", "3", "4", "-", "5", "6", "7", "-", "8", "9", "0">>}
    \cup {<<"A", "1", "1", "1", "1", "1">>, <<"A", "1", "2", "3", "4", "5">>,
          <<"A", "B", "0", "0", "0", "0">>, <<"0", "0", "0", "0", "A", "B">>,
          <<"a", "b", "1", "2", "3", "4">>, <<"1", "2", "3", "4", "A", "B">>}

ValidatorInputs(r) ==
    CASE r = "AU_MEDICAREPROVIDER" -> ProviderInputs
      [] r = "AU_DVA"              -> DvaInputs
      [] r = "AU_CRN"              -> CrnInputs
      [] r = "AU_PASSPORT"         -> PassportInputs
      [] r = "AU_DRIVERSLICENSE"   -> LicenseInputs

\* the tokens texts are made of: numbers each recognizer accepts, numbers it
\* rejects, lowercase spellings, a word, a one-letter word and the empty string
Tokens ==
    {<<"1", "2", "3", "4", "5", "6", "A", "F">>,
     <<"1", "2", "3", "4", "5", "6", "a", "y">>,
     <<"N", " ", "0", "2", "6", "0", "2", "7", "K">>, <<"n", "x", "5", "a">>,
     <<"3", "0", "7", "1", "1", "1", "9", "4", "2", "H">>,
     <<"3", "0", "7", "-", "1", "1", "1", "-", "9", "4", "2", "h">>,
     <<"P", "A", "1", "2", "3", "4", "5", "6", "7">>,
     <<"O", "1", "2", "3", "4", "5", "6", "7">>,
     <<"A", "1", "2", "3", "4", "5">>, <<"N", "A", "1", "2", "3", "4">>,
     <<"1", "1", "1", "1", "1", "1", "1", "1">>,
     <<"1", "2", "3", "4", "5", "6", "7", "8">>, <<"x">>, <<"T">>, <<>>}

Delimiters == {<<>>, <<" ">>, <<",", " ">>}

\* CRNs written in groups, passport numbers inside sentences and inside
\* longer words, a DVA number after a possessive
SampleTexts ==
    {<<"3", "0", "7", " ", "1", "1", "1", " ", "9", "4", "2", "H">>,
     <<"3", "0", "7", "-", "1", "1", "1", "-", "9", "4", "2", "H">>,
     <<"2", "0", "7", " ", "1", "1", "1", " ", "9", "4", "2", "V">>,
     <<"1", "2", "3", " ", "4", "5", "6", " ", "7", "8", "9", "A">>,
     <<"1", "2", "3", "4", "5", "6", "7", "8", "9", "A">>,
     <<"3", " ", "0", "7", "1", " ", "1", "1", "9", " ", "4", "2", "H">>,
     <<"A", "1", "2", "3", "4", "5", "6">>,
     <<"A", "1", "2", "3", "4", "5", "6", "7", "8">>,
     <<"i", "d", " ", "N", "1", "2", "3", "4", "5", "6", "7", ".">>,
     <<"p", "a", "1", "2", "3", "4", "5", "6", "7", " ", "x">>,
     <<"_", "P", "A", "1", "2", "3", "4", "5", "6", "7">>,
     <<"P", "A", "1", "2", "3", "4", "5", "6", "7", "_">>,
     <<"X", "P", "A", "1", "2", "3", "4", "5", "6", "7">>,
     <<"s", "e", "e", " ", "P", "A", "1", "2", "3", "4", "5", "6", "7", ",",
       " ", "P", "9", "8", "7", "6", "5", "4", "3", " ", "L", "5", "6", "7",
       "8", "9", "0", "1", ";", "M", "2", "3", "4", "5", "6", "7", "8">>,
     <<"v", "e", "t", "e", "r", "a", "n", "'", "s", " ", "N", " ", "0", "2",
       "6", "0", "2", "7", "K">>,
     <<"1", "2", "3", "4", "5", "6", "a", "f">>,
     <<"3", "0", "7", "1", "1", "1", "9", "4", "2", "h">>,
     <<"a", "b", "1", "2", "3", "4">>, <<"N", "1", "2", "3", "4", "5">>,
     <<"p", "a", "1", "2", "3", "4", "5", "6", "7">>,
     <<"n", "a", "1", "2", "3", "4">>, <<"W", "X", "1", "2", "3", "4">>,
     <<"1", "2", "3", " ", "4", "5", "6", " ", "7", "8", "9", " ", "0", "1",
       "2">>}

\* texts: two tokens and what stands between them, and the sample texts
TextInputs ==
    {a \o d \o b : a \in Tokens, d \in Delimiters, b \in Tokens}
    \cup SampleTexts

\* the entities arguments tried on the recognizer of type r
EntityFilters(r) == {{}, {r}, EntityTypes \ {r}, EntityTypes}

NoLib == [matches |-> {}, unparsable |-> {}, detected |-> ""]

ValidateCalls ==
    {[recognizer |-> r, call |-> "validate", argtype |-> "str", arg |-> s,
      entities |-> {}, phonelib |-> NoLib] :
        <<r, s>> \in UNION {{r} \X ValidatorInputs(r) : r \in DocumentTypes}}

AnalyzeCalls ==
    {[recognizer |-> r, call |-> "analyze", argtype |-> "str", arg |-> t,
      entities |-> e, phonelib |-> NoLib] :
        <<r, e, t>> \in UNION {{r} \X EntityFilters(r) \X TextInputs :
                                 r \in DocumentTypes}}
    \cup
    {[recognizer |-> r, call |-> "analyze", argtype |-> ty, arg |-> <<>>,
      entities |-> e, phonelib |-> NoLib] :
        <<r, e, ty>> \in UNION {{r} \X EntityFilters(r) \X {"NoneType", "int"} :
                                  r \in DocumentTypes}}

\* the subsets of S with at most n elements
RECURSIVE SubsetsUpTo(_, _)
SubsetsUpTo(S, n) ==
    IF n = 0 THEN {{}}
    ELSE LET P == SubsetsUpTo(S, n - 1)
         IN  P \cup {p \cup {x} : p \in P, x \in S}

Spans(text) == {<<a, b>> : a \in 0..Len(text), b \in 0..Len(text)} \cap
               {m \in Nat \X Nat : m[1] < m[2]}

Overlap(m, n) == m[1] < n[2] /\ n[1] < m[2]

\* the regions (indices in DEFAULT_SUPPORTED_REGIONS) under which the sampled
\* answers of the library hold matches: US, UK, IL and AU
MatchingRegions == {1, 2, 5, 9}

\* what the library can answer for a str text: per region, matches that lie
\* inside the text and do not overlap; each match re-parses or does not
PhoneLibs(text) ==
    {[matches |-> M, unparsable |-> U, detected |-> "AU"] :
        <<M, U>> \in UNION {
            {M} \X SUBSET {<<m[2], m[3]>> : m \in M} :
                M \in {N \in SubsetsUpTo(MatchingRegions
                                         \X {sp[1] : sp \in Spans(text)}
                                         \X {sp[2] : sp \in Spans(text)},
                                         MaxPhoneMatches) :
                         /\ \A m \in N : m[2] < m[3]
                         /\ \A m, n \in N :
                              (m # n /\ m[1] = n[1])
                                  => ~Overlap(<<m[2], m[3]>>, <<n[2], n[3]>>)}}}

PhoneTexts == {<<>>, <<"0", "4">>}

PhoneFilters == {{}, {"PHONE_NUMBER"}, EntityTypes \ {"PHONE_NUMBER"}}

PhoneCalls ==
    {[recognizer |-> "PHONE_NUMBER", call |-> "analyze", argtype |-> "str",
      arg |-> t, entities |-> e, phonelib |-> lib] :
        <<t, e, lib>> \in UNION {{t} \X PhoneFilters \X PhoneLibs(t) : t \in PhoneTexts}}
    \cup
    {[recognizer |-> "PHONE_NUMBER", call |-> "analyze", argtype |-> ty,
      arg |-> <<>>, entities |-> e, phonelib |-> NoLib] :
        <<ty, e>> \in {"NoneType", "int"} \X PhoneFilters}

Calls == ValidateCalls \cup AnalyzeCalls \cup PhoneCalls

-----------------------------------------------------------------------------
(* The state machine: one call, from "called" to "returned" or "raised"    *)

Init ==
    /\ \E c \in Calls :
        /\ recognizer = c.recognizer
        /\ call = c.call
        /\ argtype = c.argtype
        /\ arg = c.arg
        /\ entities = c.entities
        /\ phonelib = c.phonelib
    /\ pc = "called"
    /\ valid = FALSE
    /\ results = <<>>
    /\ exc = ""
    /\ self = __init__(recognizer)
    /\ history = <<>>

input == <<recognizer, call, argtype, arg, entities, phonelib>>

\* the structural validators: one call returns the verdict
IsValidProviderNumber ==
    /\ pc = "called" /\ call = "validate" /\ recognizer = "AU_MEDICAREPROVIDER"
    /\ valid' = _is_valid_provider_number(arg)
    /\ pc' = "returned"
    /\ UNCHANGED <<input, results, exc, self, history>>

IsValidDvaNumber ==
    /\ pc = "called" /\ call = "validate" /\ recognizer = "AU_DVA"
    /\ valid' = _is_valid_dva_number(arg)
    /\ pc' = "returned"
    /\ UNCHANGED <<input, results, exc, self, history>>

IsValidCrn ==
    /\ pc = "called" /\ call = "validate" /\ recognizer = "AU_CRN"
    /\ valid' = _is_valid_crn(arg)
    /\ pc' = "returned"
    /\ UNCHANGED <<input, results, exc, self, history>>

IsValidPassportNumber ==
    /\ pc = "called" /\ call = "validate" /\ recognizer = "AU_PASSPORT"
    /\ valid' = _is_valid_passport_number(arg)
    /\ pc' = "returned"
    /\ UNCHANGED <<input, results, exc, self, history>>

IsValidLicenseNumber ==
    /\ pc = "called" /\ call = "validate" /\ recognizer = "AU_DRIVERSLICENSE"
    /\ valid' = _is_valid_license_number(arg)
    /\ pc' = "returned"
    /\ UNCHANGED <<input, results, exc, self, history>>

\* analyze() of each recognizer: one call returns its results or raises
AuMedicareProviderAnalyze ==
    /\ pc = "called" /\ call = "analyze" /\ recognizer = "AU_MEDICAREPROVIDER"
    /\ LET out == DocumentAnalyze("AU_MEDICAREPROVIDER", argtype, arg, entities)
       IN  pc' = out.pc /\ results' = NewResults(results) \o out.results
           /\ exc' = out.exc
    /\ UNCHANGED <<input, valid, self, history>>

AuDvaAnalyze ==
    /\ pc = "called" /\ call = "analyze" /\ recognizer = "AU_DVA"
    /\ LET out == DocumentAnalyze("AU_DVA", argtype, arg, entities)
       IN  pc' = out.pc /\ results' = NewResults(results) \o out.results
           /\ exc' = out.exc
    /\ UNCHANGED <<input, valid, self, history>>

AuCrnAnalyze ==
    /\ pc = "called" /\ call = "analyze" /\ recognizer = "AU_CRN"
    /\ LET out == DocumentAnalyze("AU_CRN", argtype, arg, entities)
       IN  pc' = out.pc /\ results' = NewResults(results) \o out.results
           /\ exc' = out.exc
    /\ UNCHANGED <<input, valid, self, history>>

AuPassportAnalyze ==
    /\ pc = "called" /\ call = "analyze" /\ recognizer = "AU_PASSPORT"
    /\ LET out == DocumentAnalyze("AU_PASSPORT", argtype, arg, entities)
       IN  pc' = out.pc /\ results' = NewResults(results) \o out.results
           /\ exc' = out.exc
    /\ UNCHANGED <<input, valid, self, history>>

AuDriversLicenseAnalyze ==
    /\ pc = "called" /\ call = "analyze" /\ recognizer = "AU_DRIVERSLICENSE"
    /\ LET out == DocumentAnalyze("AU_DRIVERSLICENSE", argtype, arg, entities)
       IN  pc' = out.pc /\ results' = NewResults(results) \o out.results
           /\ exc' = out.exc
    /\ UNCHANGED <<input, valid, self, history>>

EnhancedPhoneAnalyzeCall ==
    /\ pc = "called" /\ call = "analyze" /\ recognizer = "PHONE_NUMBER"
    /\ LET out == EnhancedPhoneAnalyze(phonelib, self.supported_regions,
                                       argtype, entities)
       IN  pc' = out.pc /\ results' = NewResults(results) \o out.results
           /\ exc' = out.exc
    /\ UNCHANGED <<input, valid, self, history>>

Next ==
    \/ IsValidProviderNumber
    \/ IsValidDvaNumber
    \/ IsValidCrn
    \/ IsValidPassportNumber
    \/ IsValidLicenseNumber
    \/ AuMedicareProviderAnalyze
    \/ AuDvaAnalyze
    \/ AuCrnAnalyze
    \/ AuPassportAnalyze
    \/ AuDriversLicenseAnalyze
    \/ EnhancedPhoneAnalyzeCall

Spec == Init /\ [][Next]_vars

-----------------------------------------------------------------------------
(* One recognizer object called several times                              *)

\* the texts one object is called with
SessionTexts(r) ==
    IF r = "PHONE_NUMBER" THEN PhoneTexts
    ELSE {<<"N", " ", "0", "2", "6", "0", "2", "7", "K">>,
          <<"3", "0", "7", "1", "1", "1", "9", "4", "2", "H", " ",
            "P", "A", "1", "2", "3", "4", "5", "6", "7">>,
          <<"A", "1", "2", "3", "4", "5", ",", " ",
            "1", "2", "3", "4", "5", "6", "A", "F">>}

SessionFilters(r) == {{}, {r}}

\* answers of the phone library for the text t: the whole text is a number
\* under the regions US and AU, under one of them, or under none
SessionLibs(t) ==
    {lib \in PhoneLibs(t) :
        /\ lib.unparsable = {}
        /\ \A m \in lib.matches : m[1] \in {1, 9} /\ m[2] = 0 /\ m[3] = Len(t)}

\* the library is a function of the text: a text seen before gets the answer
\* it got then
LibraryAnswers(r, texttype, text, completed) ==
    LET before == {completed[i].phonelib :
                      i \in {j \in DOMAIN completed :
                                /\ completed[j].argtype = "str"
                                /\ completed[j].arg = text}}
    IN  IF r # "PHONE_NUMBER" \/ texttype # "str" THEN {NoLib}
        ELSE IF before # {} THEN before
        ELSE SessionLibs(text)

\* what is remembered of a completed call
CallRecord ==
    [argtype |-> argtype, arg |-> arg, entities |-> entities,
     phonelib |-> phonelib, pc |-> pc, results |-> results, exc |-> exc]

\* an object of one of the six classes has been constructed
SessionInit ==
    /\ recognizer \in EntityTypes
    /\ call = "analyze"
    /\ argtype = "str"
    /\ arg = <<>>
    /\ entities = {}
    /\ phonelib = NoLib
    /\ pc = "idle"
    /\ valid = FALSE
    /\ results = <<>>
    /\ exc = ""
    /\ self = __init__(recognizer)
    /\ history = <<>>

\* the caller calls analyze(text, entities) on the object, after the
\* previous call (if any) has returned or raised
Call ==
    /\ pc \in {"idle", "returned", "raised"}
    /\ Len(history) + (IF pc = "idle" THEN 0 ELSE 1) < MaxCalls
    /\ history' = IF pc = "idle" THEN history ELSE Append(history, CallRecord)
    /\ \E texttype \in {"str", "NoneType"}, text \in SessionTexts(recognizer),
          requested \in SessionFilters(recognizer) :
        /\ texttype = "NoneType" => text = <<>>
        /\ texttype = "NoneType" \/ recognizer = "PHONE_NUMBER" \/ text # <<>>
        /\ argtype' = texttype
        /\ arg' = text
        /\ entities' = requested
        /\ phonelib' \in LibraryAnswers(recognizer, texttype, text, history')
    /\ pc' = "called"
    /\ UNCHANGED <<recognizer, call, valid, results, exc, self>>

SessionNext ==
    \/ Call
    \/ AuMedicareProviderAnalyze
    \/ AuDvaAnalyze
    \/ AuCrnAnalyze
    \/ AuPassportAnalyze
    \/ AuDriversLicenseAnalyze
    \/ EnhancedPhoneAnalyzeCall

SessionSpec == SessionInit /\ [][SessionNext]_vars

-----------------------------------------------------------------------------
(* Claims                                                                  *)

Returned(r, c) == recognizer = r /\ call = c /\ pc = "returned"

Str8(a, b, c, d, e, f, g, h) == <<a, b, c, d, e, f, g, h>>

\* C1 as stated: the 32 location symbols, the PLV and the table
C1_LocationSymbols ==
    DigitChars \cup (Range(SubSeq(UpperSeq, 1, 25)) \ {"I", "O", "S"})

C1_PLV(c) ==
    IF c \in DigitChars THEN int(c)
    ELSE 10 + IndexIn(<<"A", "B", "C", "D", "E", "F", "G", "H", "J", "K", "L", "M",
                        "N", "P", "Q", "R", "T", "U", "V", "W", "X", "Y">>, c) - 1

C1_Table ==
    [r \in 0..10 |->
        CASE r = 0 -> "Y" [] r = 1 -> "X" [] r = 2 -> "W" [] r = 3 -> "T"
          [] r = 4 -> "L" [] r = 5 -> "K" [] r = 6 -> "J" [] r = 7 -> "H"
          [] r = 8 -> "F" [] r = 9 -> "B" [] r = 10 -> "A"]

C1_Sum(s) ==
    3 * int(s[1]) + 5 * int(s[2]) + 8 * int(s[3]) + 4 * int(s[4])
    + 2 * int(s[5]) + 1 * int(s[6]) + 6 * C1_PLV(s[7])

C1_Accepts(s) ==
    /\ Len(s) = 8
    /\ \A i \in 1..6 : s[i] \in DigitChars
    /\ s[7] \in C1_LocationSymbols
    /\ s[8] = C1_Table[C1_Sum(s) % 11]

C2_Table ==
    [r \in 0..10 |->
        CASE r = 10 -> "A" [] r = 9 -> "B" [] r = 8 -> "C" [] r = 7 -> "H"
          [] r = 6 -> "J" [] r = 5 -> "K" [] r = 4 -> "L" [] r = 3 -> "S"
          [] r = 2 -> "T" [] r = 1 -> "V" [] r = 0 -> "X"]

C2_Sum(c) ==
    int(c[1]) * 512 + int(c[2]) * 256 + int(c[3]) * 128 + int(c[4]) * 64
    + int(c[5]) * 32 + int(c[6]) * 16 + int(c[7]) * 8 + int(c[8]) * 4
    + int(c[9]) * 2

C2_Accepts(s) ==
    LET c == SelectSeq(s, LAMBDA x : x \notin {" ", "-"})
    IN  /\ Len(c) \in {10, 11}
        /\ c[1] \in {"2", "3", "4", "5", "6", "7"}
        /\ \A i \in 2..9 : c[i] \in DigitChars
        /\ c[10] = C2_Table[C2_Sum(c) % 11]
        /\ Len(c) = 11 => c[11] \in LetterChars

\* C2: _is_valid_crn accepts s iff, with c = s without whitespace and hyphens,
\* len(c) is 10 or 11, c[0] is a digit 2..7, c[1..8] are digits, c[9] is
\* table[(sum of digit_n * 2^(10-n)) mod 11] and c[10], if present, is a letter
C2_CrnValidatorIff ==
    Returned("AU_CRN", "validate") => (valid <=> C2_Accepts(arg))

\* a CRN with a dependant letter and with separators was accepted
C2_Witness ==
    /\ Returned("AU_CRN", "validate")
    /\ valid
    /\ \E i \in DOMAIN arg : arg[i] \in SeparatorChars

\* a CRN with a dependant letter was accepted
C2_WitnessDependant ==
    /\ Returned("AU_CRN", "validate")
    /\ valid
    /\ Len(arg) = 11 /\ arg[11] \in UpperChars

\* C3 as stated: state letter, war code, digits, optional dependent letter
C3_Grammar(s) ==
    \E w \in 1..3, k \in 1..6, dep \in 0..1 :
        /\ Len(s) = 1 + w + k + dep
        /\ s[1] \in {"N", "V", "Q", "W", "S", "T"}
        /\ \/ w = 1 /\ s[2] = " "
           \/ \A i \in 2..(1 + w) : s[i] \in UpperChars
        /\ \A i \in (2 + w)..(1 + w + k) : s[i] \in DigitChars
        /\ w = 1 => k <= 6
        /\ w = 2 => k <= 5
        /\ w = 3 => k <= 4
        /\ dep = 1 => s[Len(s)] \in UpperChars

\* C3: _is_valid_dva_number accepts s iff s is a state letter, a war code (a
\* space or 1 to 3 letters), k digits (1 <= k <= 6, 5, 4 for a war code of 1,
\* 2, 3 characters) and optionally one dependent letter; strings shorter
\* than 3 or longer than 9, and 9-character strings not ending in a letter,
\* are rejected
C3_DvaValidatorIff ==
    Returned("AU_DVA", "validate") =>
        /\ valid <=> C3_Grammar(arg)
        /\ (Len(arg) < 3 \/ Len(arg) > 9) => ~valid
        /\ (Len(arg) = 9 /\ arg[9] \notin UpperChars) => ~valid

\* a 9-character number with a three-letter war code and a dependent letter
\* was accepted
C3_Witness ==
    /\ Returned("AU_DVA", "validate")
    /\ valid
    /\ Len(arg) = 9
    /\ arg[4] \in UpperChars

\* C4 as stated
C4_Alphabet == UpperChars \ {"O", "S", "Q", "I"}

C4_Accepts(s) ==
    \/ /\ Len(s) = 8
       /\ s[1] \in C4_Alphabet
       /\ \A i \in 2..8 : s[i] \in DigitChars
    \/ /\ Len(s) = 9
       /\ s[1] \in C4_Alphabet /\ s[2] \in C4_Alphabet
       /\ \A i \in 3..9 : s[i] \in DigitChars

C4_PA1234567 == <<"P", "A", "1", "2", "3", "4", "5", "6", "7">>

\* C4: _is_valid_passport_number accepts s iff s is one letter of the
\* 22-letter alphabet and 7 digits, or two such letters and 7 digits;
\* PA1234567 is accepted and reported with score 0.9, O1234567 is rejected
C4_PassportValidatorIff ==
    /\ Returned("AU_PASSPORT", "validate") =>
        /\ valid <=> C4_Accepts(arg)
        /\ arg = C4_PA1234567 => valid
        /\ arg = Str8("O", "1", "2", "3", "4", "5", "6", "7") => ~valid
    /\ (Returned("AU_PASSPORT", "analyze") /\ "AU_PASSPORT" \in entities
        /\ argtype = "str" /\ arg = C4_PA1234567) =>
        /\ Len(results) = 1
        /\ results[1].start = 0 /\ results[1].end = 9
        /\ results[1].score = 9
        /\ results[1].entity_type = "AU_PASSPORT"

\* a two-letter passport number was accepted
C4_Witness ==
    /\ Returned("AU_PASSPORT", "validate")
    /\ valid
    /\ Len(arg) = 9

\* analyze reported PA1234567
C4_WitnessAnalyze ==
    /\ Returned("AU_PASSPORT", "analyze")
    /\ arg = C4_PA1234567
    /\ results # <<>>

\* C5 as stated
C5_Shape(c, letters) ==
    /\ Len(c) = 6
    /\ \A i \in 1..6 : IF i \in letters THEN c[i] \in LetterChars
                       ELSE c[i] \in DigitChars

C5_Accepts(s) ==
    LET c == SelectSeq(s, LAMBDA x : x \notin {" ", "-"})
    IN  /\ 6 <= Len(c) /\ Len(c) <= 10
        /\ \/ /\ \A i \in DOMAIN c : c[i] \in DigitChars
              /\ ~_is_too_uniform(c)
              /\ c # <<"1", "2", "3", "4", "5", "6">>
              /\ c # <<"6", "5", "4", "3", "2", "1">>
           \/ C5_Shape(c, {1})
           \/ C5_Shape(c, {1, 2})
           \/ C5_Shape(c, {5, 6})

\* C5: _is_valid_license_number accepts s iff, with c = s without whitespace
\* and hyphens, 6 <= len(c) <= 10 and either c is all digits, not too uniform
\* and not 123456 or 654321, or c is 1 letter + 5 digits, 2 letters + 4
\* digits or 4 digits + 2 letters; a 7- to 10-character string with a letter
\* is rejected
C5_LicenseValidatorIff ==
    Returned("AU_DRIVERSLICENSE", "validate") =>
        /\ valid <=> C5_Accepts(arg)
        /\ (Len(StripSeparators(arg)) >= 7
            /\ \E i \in DOMAIN arg : arg[i] \in LetterChars) => ~valid

\* a 4 digits + 2 letters license number was accepted
C5_Witness ==
    /\ Returned("AU_DRIVERSLICENSE", "validate")
    /\ valid
    /\ arg[6] \in LetterChars

\* C6: analyze of each of the five document recognizers returns the empty list
\* when its entity type is not in entities, whatever the text holds
C6_DocumentFilterGating ==
    (call = "analyze" /\ recognizer \in DocumentTypes /\ pc # "called"
     /\ recognizer \notin entities) =>
        pc = "returned" /\ results = <<>>

\* analyze returned nothing for a text holding a number the recognizer
\* accepts, other types being requested
C6_Witness ==
    /\ call = "analyze" /\ recognizer \in DocumentTypes /\ pc = "returned"
    /\ recognizer \notin entities /\ entities # {}
    /\ argtype = "str"
    /\ AppendValid(recognizer, arg, finditer(recognizer, arg, 0)) # <<>>
    /\ results = <<>>

\* C7: EnhancedPhoneRecognizer.analyze returns the empty list when
\* PHONE_NUMBER is not in entities
C7_PhoneFilterGating ==
    (call = "analyze" /\ recognizer = "PHONE_NUMBER" /\ pc # "called"
     /\ argtype = "str" /\ "PHONE_NUMBER" \notin entities) =>
        pc = "returned" /\ results = <<>>

\* C8: with its entity type requested, analyze on the empty string or on a
\* text that is no str returns the empty list and raises nothing; a candidate
\* that fails validation is dropped without an error
C8_NoExceptionOnAnyText ==
    (call = "analyze" /\ pc # "called" /\ recognizer \in entities) =>
        /\ (argtype # "str" \/ arg = <<>>) => pc = "returned" /\ results = <<>>
        /\ pc = "returned" /\ exc = ""

\* C9: an accepted Medicare Provider number (CRN) carries the check character
\* recomputed from its stem and location (state code and digits); for every
\* valid payload the computed check character is one of the 11 table symbols,
\* never empty, appending it gives an accepted number, and no other check
\* character is accepted
C9_ChecksumRoundTrip ==
    /\ (Returned("AU_MEDICAREPROVIDER", "validate") /\ Len(arg) = 8
        /\ (\A i \in 1..6 : arg[i] \in DigitChars)
        /\ arg[7] \in C1_LocationSymbols) =>
        LET stem == SubSeq(arg, 1, 6)
            c    == AuMedicareProvider_calculate_check_digit(stem, arg[7])
        IN  /\ c # "" /\ c \in Range(C1_Table)
            /\ _is_valid_provider_number(stem \o <<arg[7], c>>)
            /\ valid <=> arg[8] = c
            /\ \A x \in Chars :
                   _is_valid_provider_number(stem \o <<arg[7], x>>) => x = c
    /\ (Returned("AU_MEDICAREPROVIDER", "validate") /\ valid) =>
        arg[8] = AuMedicareProvider_calculate_check_digit(SubSeq(arg, 1, 6), arg[7])
    /\ (Returned("AU_CRN", "validate") /\ Len(StripSeparators(arg)) \in {10, 11}
        /\ StripSeparators(arg)[1] \in {"2", "3", "4", "5", "6", "7"}
        /\ \A i \in 2..9 : StripSeparators(arg)[i] \in DigitChars) =>
        LET payload == SubSeq(StripSeparators(arg), 1, 9)
            c       == AuCrn_calculate_check_digit(payload)
        IN  /\ c # "" /\ c \in Range(C2_Table)
            /\ _is_valid_crn(payload \o <<c>>)
            /\ valid => StripSeparators(arg)[10] = c
            /\ \A x \in Chars \ SeparatorChars :
                   _is_valid_crn(payload \o <<x>>) => x = c

\* a CRN was accepted whose check character is the recomputed one
C9_Witness ==
    /\ Returned("AU_CRN", "validate")
    /\ valid
    /\ Len(arg) = 10
    /\ arg[10] = AuCrn_calculate_check_digit(SubSeq(arg, 1, 9))

\* a provider number was accepted whose check character is the recomputed one
C9_WitnessProvider ==
    /\ Returned("AU_MEDICAREPROVIDER", "validate")
    /\ valid
    /\ arg[8] = AuMedicareProvider_calculate_check_digit(SubSeq(arg, 1, 6), arg[7])

\* C10: a provider number whose location character is I, O, S or Z is
\* rejected for every stem and check character, the check character computed
\* with location value 0 included; a passport number with O, S, Q or I among
\* its letters is rejected for every digit part
C10_AlphabetExclusion ==
    /\ (Returned("AU_MEDICAREPROVIDER", "validate") /\ Len(arg) = 8
        /\ arg[7] \in {"I", "O", "S", "Z"}) =>
        /\ ~valid
        /\ (\A i \in 1..6 : arg[i] \in DigitChars) =>
            \A x \in {"I", "O", "S", "Z"} :
                ~_is_valid_provider_number(
                    SubSeq(arg, 1, 6)
                    \o <<x, AuMedicareProvider_CHECK_DIGITS[(C1_Sum(SubSeq(arg, 1, 6) \o <<"0">>) % 11) + 1]>>)
    /\ (Returned("AU_PASSPORT", "validate") /\ Len(arg) = 8
        /\ arg[1] \in {"O", "S", "Q", "I"}) => ~valid
    /\ (Returned("AU_PASSPORT", "validate") /\ Len(arg) = 9
        /\ (arg[1] \in {"O", "S", "Q", "I"} \/ arg[2] \in {"O", "S", "Q", "I"})) =>
        ~valid

\* a provider number with location I and the check character computed with
\* location value 0 was rejected
C10_Witness ==
    /\ Returned("AU_MEDICAREPROVIDER", "validate")
    /\ Len(arg) = 8
    /\ \A i \in 1..6 : arg[i] \in DigitChars
    /\ arg[7] = "I"
    /\ arg[8] = C1_Table[C1_Sum(SubSeq(arg, 1, 6) \o <<"0">>) % 11]
    /\ ~valid

\* a passport number with an excluded second letter and seven digits was
\* rejected
C10_WitnessPassport ==
    /\ Returned("AU_PASSPORT", "validate")
    /\ Len(arg) = 9
    /\ arg[1] = "P" /\ arg[2] = "Q"
    /\ \A i \in 3..9 : arg[i] \in DigitChars
    /\ ~valid

C11_NX5 == <<"N", "X", "5">>

C11_N026027K == <<"N", " ", "0", "2", "6", "0", "2", "7", "K">>

\* C11: _is_valid_dva_number rejects every string of length 2 and of length
\* 10; at lengths 3 and 9 the verdict is the one of the remaining rules (the
\* grammar of state letter, war code, digits and dependent letter): NX5 and
\* N 026027K are accepted, and strings of lengths 3 and 9 exist that are
\* rejected
C11_DvaLengthBoundaries ==
    Returned("AU_DVA", "validate") =>
        /\ Len(arg) \in {2, 10} => ~valid
        /\ Len(arg) \in {3, 9} => (valid <=> C3_Grammar(arg))
        /\ arg \in {C11_NX5, C11_N026027K} =>
            /\ valid
            /\ \E s \in DvaInputs :
                   Len(s) = Len(arg) /\ s[1] = "N" /\ ~_is_valid_dva_number(s)

\* the 9-character number N 026027K was accepted
C11_Witness ==
    /\ Returned("AU_DVA", "validate")
    /\ arg = C11_N026027K
    /\ valid

\* a 10-character string that only its length keeps from the grammar's
\* longest shape was rejected
C11_WitnessTooLong ==
    /\ Returned("AU_DVA", "validate")
    /\ Len(arg) = 10
    /\ arg[1] = "N" /\ arg[2] = " " /\ arg[10] \in UpperChars
    /\ \A i \in 3..9 : arg[i] \in DigitChars
    /\ ~valid

\* a 3-character string starting with a state letter was rejected
C11_WitnessShortRejected ==
    /\ Returned("AU_DVA", "validate")
    /\ Len(arg) = 3
    /\ arg[1] = "N"
    /\ ~valid

\* C12: _is_valid_license_number rejects every string of 6 to 10 digits that
\* are all the same, and rejects 123456 and 654321
C12_UniformDigitsRejected ==
    Returned("AU_DRIVERSLICENSE", "validate") =>
        /\ (Len(arg) \in 6..10
            /\ \A i \in DOMAIN arg : arg[i] \in DigitChars /\ arg[i] = arg[1]) =>
               ~valid
        /\ arg = <<"1", "2", "3", "4", "5", "6">> => ~valid
        /\ arg = <<"6", "5", "4", "3", "2", "1">> => ~valid

\* a string of seven equal digits was rejected
C12_Witness ==
    /\ Returned("AU_DRIVERSLICENSE", "validate")
    /\ Len(arg) = 7
    /\ \A i \in DOMAIN arg : arg[i] = "7"
    /\ ~valid

\* 654321 was rejected
C12_WitnessDescending ==
    /\ Returned("AU_DRIVERSLICENSE", "validate")
    /\ arg = <<"6", "5", "4", "3", "2", "1">>
    /\ ~valid

\* C13: every result of a document recognizer's analyze has
\* 0 <= start < end <= len(text), carries the recognizer's entity type, and
\* the uppercased text[start:end] is accepted by the recognizer's validator
C13_ResultsWellFormed ==
    (call = "analyze" /\ recognizer \in DocumentTypes /\ pc = "returned") =>
        \A i \in DOMAIN results :
            /\ 0 <= results[i].start
            /\ results[i].start < results[i].end
            /\ results[i].end <= Len(arg)
            /\ results[i].entity_type = recognizer
            /\ Validator(recognizer,
                         upper(SubSeq(arg, results[i].start + 1, results[i].end)))

\* analyze emitted a result and dropped another candidate of the same text
C13_Witness ==
    /\ call = "analyze" /\ recognizer \in DocumentTypes /\ pc = "returned"
    /\ results # <<>>
    /\ Len(finditer(recognizer, arg, 0)) > Len(results)

\* C14: the score of a result is fixed by the recognizer that emitted it: 0.9
\* for Medicare Provider, DVA, CRN and Passport, 0.8 for Driver's License and
\* 0.7 for Phone (scores in tenths)
C14_FixedScores ==
    (call = "analyze" /\ pc = "returned") =>
        \A i \in DOMAIN results :
            results[i].score =
                (IF recognizer = "PHONE_NUMBER" THEN 7
                 ELSE IF recognizer = "AU_DRIVERSLICENSE" THEN 8
                 ELSE 9)

\* the license recognizer emitted two results, of different lengths, both
\* with score 0.8
C14_Witness ==
    /\ call = "analyze" /\ recognizer = "AU_DRIVERSLICENSE" /\ pc = "returned"
    /\ Len(results) = 2
    /\ results[1].end - results[1].start # results[2].end - results[2].start
    /\ results[1].score = 8 /\ results[2].score = 8

\* the phone recognizer emitted a result with score 0.7
C14_WitnessPhone ==
    /\ call = "analyze" /\ recognizer = "PHONE_NUMBER" /\ pc = "returned"
    /\ results # <<>>
    /\ results[1].score = 7

\* the completed calls that had the text and the entities of the current one
C15_SameCallBefore ==
    {i \in DOMAIN history :
        /\ history[i].argtype = argtype
        /\ history[i].arg = arg
        /\ history[i].entities = entities}

C16_307111942H == <<"3", "0", "7", "1", "1", "1", "9", "4", "2", "H">>

\* C16: 307111942H is accepted: the digits 3,0,7,1,1,1,9,4,2 weighted 2^9
\* down to 2^1 sum to 2636, 2636 mod 11 = 7 and remainder 7 maps to H; analyze
\* on the text 307111942H with AU_CRN requested returns exactly one result,
\* spanning all 10 characters
C16_Crn307111942H ==
    /\ (Returned("AU_CRN", "validate") /\ arg = C16_307111942H) =>
        /\ valid
        /\ CrnWeightedSum(SubSeq(arg, 1, 9), 1) = 2636
        /\ CrnWeightedSum(SubSeq(arg, 1, 9), 1) % 11 = 7
        /\ REMAINDER_TO_CHECK_DIGIT[7 + 1] = "H"
        /\ AuCrn_calculate_check_digit(SubSeq(arg, 1, 9)) = "H"
    /\ (Returned("AU_CRN", "analyze") /\ arg = C16_307111942H
        /\ argtype = "str" /\ "AU_CRN" \in entities) =>
        /\ Len(results) = 1
        /\ results[1].start = 0 /\ results[1].end = 10
        /\ results[1].entity_type = "AU_CRN"

\* analyze reported the whole text 307111942H as a CRN
C16_Witness ==
    /\ Returned("AU_CRN", "analyze")
    /\ arg = C16_307111942H
    /\ "AU_CRN" \in entities
    /\ Len(results) = 1
    /\ results[1].end = 10

\* the validator accepted 307111942H
C16_WitnessValidator ==
    /\ Returned("AU_CRN", "validate")
    /\ arg = C16_307111942H
    /\ valid

\* N 026027K stands at offset p of text, with whitespace or the end of the
\* text on either side
C17_TokenAt(text, p) ==
    /\ p + 9 <= Len(text)
    /\ SubSeq(text, p + 1, p + 9) = C11_N026027K
    /\ p = 0 \/ text[p] = " "
    /\ p + 9 = Len(text) \/ text[p + 10] = " "

\* C17: where N 026027K occurs in the text as a token delimited by whitespace
\* or the ends of the text, analyze with AU_DVA requested returns a result
\* whose span is that occurrence, whatever precedes or follows it
C17_DvaTokenAlwaysFound ==
    (Returned("AU_DVA", "analyze") /\ argtype = "str" /\ "AU_DVA" \in entities) =>
        \A p \in 0..Len(arg) :
            C17_TokenAt(arg, p) =>
                \E i \in DOMAIN results :
                    results[i].start = p /\ results[i].end = p + 9

\* three groups of three digits joined by one space or hyphen, then a letter
C18_Grouped(text) ==
    /\ Len(text) = 12
    /\ text[4] \in {" ", "-"} /\ text[8] \in {" ", "-"}
    /\ \A i \in {1, 2, 3, 5, 6, 7, 9, 10, 11} : text[i] \in DigitChars
    /\ text[12] \in LetterChars

\* analyze of the CRN recognizer, AU_CRN requested, reports the whole text
C18_Recognized(text) ==
    \E i \in DOMAIN DocumentAnalyze("AU_CRN", "str", text, {"AU_CRN"}).results :
        LET res == DocumentAnalyze("AU_CRN", "str", text, {"AU_CRN"}).results[i]
        IN  res.start = 0 /\ res.end = Len(text)

\* C18: a CRN written as three groups of three digits separated by a space
\* or hyphen, followed by the check character, is recognized exactly when
\* its form without separators is; the documented example 123 456 789A is
\* recognized
C18_GroupedCrnRecognized ==
    (Returned("AU_CRN", "analyze") /\ argtype = "str" /\ "AU_CRN" \in entities
     /\ C18_Grouped(arg)) =>
        /\ (\E i \in DOMAIN results :
                results[i].start = 0 /\ results[i].end = Len(arg))
           <=> C18_Recognized(StripSeparators(arg))
        /\ arg = <<"1", "2", "3", " ", "4", "5", "6", " ", "7", "8", "9", "A">> =>
               results # <<>>

\* text[a:b] is a whole word of 1 or 2 letters of the valid alphabet (in
\* either case) and 7 digits
C19_PassportToken(text, a, b) ==
    /\ 0 <= a /\ b <= Len(text)
    /\ a = 0 \/ ~WordChar(text[a])
    /\ b = Len(text) \/ ~WordChar(text[b + 1])
    /\ b - a \in {8, 9}
    /\ \A q \in (a + 1)..(b - 7) : UpperChar(text[q]) \in C4_Alphabet
    /\ \A q \in (b - 6)..b : text[q] \in DigitChars

C19_Samples ==
    {<<"N", "1", "2", "3", "4", "5", "6", "7">>,
     <<"P", "A", "1", "2", "3", "4", "5", "6", "7">>,
     <<"P", "9", "8", "7", "6", "5", "4", "3">>,
     <<"L", "5", "6", "7", "8", "9", "0", "1">>,
     <<"M", "2", "3", "4", "5", "6", "7", "8">>}

\* C19: analyze with AU_PASSPORT requested reports a span iff the span is a
\* whole word (no letter, digit or underscore next to it) of 1 or 2 letters of
\* the valid alphabet and exactly 7 digits; the words A123456 and A12345678
\* give no result, not for a part of them either, and each of the five sample
\* numbers standing in a sentence is reported
C19_PassportWholeTokens ==
    (Returned("AU_PASSPORT", "analyze") /\ argtype = "str"
     /\ "AU_PASSPORT" \in entities) =>
        /\ \A a \in 0..Len(arg), b \in 0..Len(arg) :
               (\E i \in DOMAIN results :
                    results[i].start = a /\ results[i].end = b)
               <=> C19_PassportToken(arg, a, b)
        /\ arg \in {<<"A", "1", "2", "3", "4", "5", "6">>,
                    <<"A", "1", "2", "3", "4", "5", "6", "7", "8">>} =>
               results = <<>>
        /\ \A a \in 1..Len(arg), b \in 1..Len(arg) :
               (/\ b < Len(arg)
                /\ SubSeq(arg, a + 1, b) \in C19_Samples
                /\ ~WordChar(arg[a]) /\ ~WordChar(arg[b + 1])) =>
                   \E i \in DOMAIN results :
                       results[i].start = a /\ results[i].end = b

\* four sample numbers inside one sentence were all reported
C19_Witness ==
    /\ Returned("AU_PASSPORT", "analyze")
    /\ "AU_PASSPORT" \in entities
    /\ Len(arg) > 30
    /\ Len(results) = 4

\* a passport-shaped part of a longer word was not reported
C19_WitnessInsideWord ==
    /\ Returned("AU_PASSPORT", "analyze")
    /\ "AU_PASSPORT" \in entities
    /\ arg = <<"A", "1", "2", "3", "4", "5", "6", "7", "8">>
    /\ results = <<>>

\* C20: the list EnhancedPhoneRecognizer.analyze returns never holds two
\* results with the same (start, end), also when several regions match the
\* same number
C20_PhoneSpansUnique ==
    (recognizer = "PHONE_NUMBER" /\ call = "analyze" /\ pc = "returned") =>
        \A i, j \in DOMAIN results :
            (results[i].start = results[j].start
             /\ results[i].end = results[j].end) => i = j

\* two regions matched the same span and one result was returned
C20_Witness ==
    /\ recognizer = "PHONE_NUMBER" /\ call = "analyze" /\ pc = "returned"
    /\ \E m, n \in phonelib.matches : m[1] # n[1] /\ m[2] = n[2] /\ m[3] = n[3]
    /\ Len(results) = 1

\* the explanation the loop body gives to the match m = <<region index,
\* start, end>> of the library
C21_Explanation(m) ==
    IF <<m[2], m[3]>> \in phonelib.unparsable
    THEN self.supported_regions[m[1]]
    ELSE phonelib.detected

\* C21: every match the phone library yields under a configured region gives
\* exactly one candidate with the match's span and score 0.7, whether or not
\* re-parsing succeeds: the explanation names the detected region on success
\* and the configured region on a parse failure; the failure does not leave
\* analyze, and every match's span lies inside a returned result
C21_ParseFailureKeepsCandidate ==
    (recognizer = "PHONE_NUMBER" /\ call = "analyze" /\ argtype = "str"
     /\ pc # "called") =>
        LET candidates == PhoneAllResults(phonelib, self.supported_regions, 1)
        IN  /\ pc = "returned" /\ exc = ""
            /\ Len(candidates) = Cardinality(phonelib.matches)
            /\ \A m \in phonelib.matches :
                   Cardinality({i \in DOMAIN candidates :
                                   /\ candidates[i].start = m[2]
                                   /\ candidates[i].end = m[3]
                                   /\ candidates[i].score = 7
                                   /\ candidates[i].explanation = C21_Explanation(m)})
                   = Cardinality({n \in phonelib.matches :
                                     /\ n[2] = m[2] /\ n[3] = m[3]
                                     /\ C21_Explanation(n) = C21_Explanation(m)})
            /\ results = remove_duplicates(candidates)
            /\ \A m \in phonelib.matches :
                   \E i \in DOMAIN results :
                       /\ results[i].start <= m[2] /\ m[3] <= results[i].end
                       /\ results[i].score = 7

\* the only match of the text could not be re-parsed, and the result
\* returned for it names the configured region
C21_Witness ==
    /\ recognizer = "PHONE_NUMBER" /\ call = "analyze" /\ pc = "returned"
    /\ Cardinality(phonelib.matches) = 1
    /\ \A m \in phonelib.matches :
           /\ <<m[2], m[3]>> \in phonelib.unparsable
           /\ self.supported_regions[m[1]] # phonelib.detected
           /\ Len(results) = 1
           /\ results[1].explanation = self.supported_regions[m[1]]

\* C23: the regions are processed in their declared order, and of the
\* candidates with one span the result returned is the one produced first,
\* for the earliest region of the declared list that matched the span
C23_FirstRegionWins ==
    (recognizer = "PHONE_NUMBER" /\ call = "analyze" /\ pc = "returned") =>
        /\ self.supported_regions = DEFAULT_SUPPORTED_REGIONS
        /\ \A i \in DOMAIN results :
               LET same  == {m \in phonelib.matches :
                                m[2] = results[i].start /\ m[3] = results[i].end}
                   first == CHOOSE m \in same : \A n \in same : m[1] <= n[1]
               IN  /\ same # {}
                   /\ results[i].explanation =
                          (IF <<first[2], first[3]>> \in phonelib.unparsable
                           THEN DEFAULT_SUPPORTED_REGIONS[first[1]]
                           ELSE phonelib.detected)

\* US and UK matched the same span, it could not be re-parsed, and the
\* result returned names US
C23_Witness ==
    /\ recognizer = "PHONE_NUMBER" /\ call = "analyze" /\ pc = "returned"
    /\ \E m, n \in phonelib.matches :
           /\ m[1] = 1 /\ n[1] = 2 /\ m[2] = n[2] /\ m[3] = n[3]
           /\ <<m[2], m[3]>> \in phonelib.unparsable
    /\ Len(results) = 1
    /\ results[1].explanation = "US"

\* C22 as stated: the number of positions of s holding the digit d, and the
\* three cases in which a digit string is too uniform
C22_Count(s, d) == Cardinality({i \in DOMAIN s : s[i] = d})

C22_TooUniform(s) ==
    \/ \A i \in DOMAIN s : s[i] = s[1]
    \/ /\ Len(s) <= 7
       /\ \/ \A i \in 2..Len(s) : int(s[i]) = int(s[i - 1]) + 1
          \/ \A i \in 2..Len(s) : int(s[i]) = int(s[i - 1]) - 1
    \/ /\ Len(s) >= 8
       /\ Cardinality(Range(s)) <= 2
       /\ \E d \in Range(s) : 5 * C22_Count(s, d) > 4 * Len(s)

\* C22: on a digit string of length 6 to 10, _is_too_uniform is true exactly
\* when all digits are identical, or the length is at most 7 and the digits
\* go up by one or down by one at every step, or the length is at least 8,
\* at most two digits occur and the most frequent one fills more than 80% of
\* the positions; so a string of 8 to 10 digits with two distinct digits is
\* rejected iff the rarer digit occurs once, an 8/2 split of 10 digits is
\* accepted, and runs such as 12345678 are accepted while 1234567 and
\* 7654321 are rejected
C22_TooUniformExactly ==
    (/\ Returned("AU_DRIVERSLICENSE", "validate")
     /\ Len(arg) \in 6..10
     /\ \A i \in DOMAIN arg : arg[i] \in DigitChars) =>
        /\ _is_too_uniform(arg) = C22_TooUniform(arg)
        /\ valid = ~C22_TooUniform(arg)
        /\ (Len(arg) >= 8 /\ Cardinality(Range(arg)) = 2) =>
               (~valid <=> \E d \in Range(arg) : C22_Count(arg, d) = 1)
        /\ (Len(arg) = 10 /\ \E d \in Range(arg) : C22_Count(arg, d) = 8) => valid
        /\ (Len(arg) >= 8 /\ arg = DigitRun(int(arg[1]), 1, Len(arg))
            /\ int(arg[1]) + Len(arg) <= 10) => valid
        /\ (arg = DigitRun(1, 1, 7) \/ arg = DigitRun(7, -1, 7)) => ~valid

\* ten digits of which eight are 1 and two are 2 were accepted
C22_Witness ==
    /\ Returned("AU_DRIVERSLICENSE", "validate")
    /\ Len(arg) = 10
    /\ C22_Count(arg, "1") = 8 /\ C22_Count(arg, "2") = 2
    /\ valid

\* nine digits of which eight are 1 and one is 2 were rejected
C22_WitnessRejected ==
    /\ Returned("AU_DRIVERSLICENSE", "validate")
    /\ Len(arg) = 9
    /\ C22_Count(arg, "1") = 8 /\ C22_Count(arg, "2") = 1
    /\ ~valid

\* 12345678 was accepted
C22_WitnessRun ==
    /\ Returned("AU_DRIVERSLICENSE", "validate")
    /\ arg = DigitRun(1, 1, 8)
    /\ valid

\* C24 as stated: the uppercase form of an ASCII text
C24_Uppercase(text) ==
    [i \in DOMAIN text |->
        IF \E k \in 1..26 : LowerSeq[k] = text[i]
        THEN UpperSeq[CHOOSE k \in 1..26 : LowerSeq[k] = text[i]]
        ELSE text[i]]

C24_Spans(rs) == [i \in DOMAIN rs |-> <<rs[i].start, rs[i].end>>]

\* lowercase spellings of accepted numbers, with the recognizer of each
C24_Samples ==
    {<<"AU_MEDICAREPROVIDER", <<"1", "2", "3", "4", "5", "6", "a", "f">>>>,
     <<"AU_DVA", <<"n", "x", "5", "a">>>>,
     <<"AU_CRN", <<"3", "0", "7", "1", "1", "1", "9", "4", "2", "h">>>>,
     <<"AU_PASSPORT", <<"p", "a", "1", "2", "3", "4", "5", "6", "7">>>>,
     <<"AU_DRIVERSLICENSE", <<"a", "b", "1", "2", "3", "4">>>>}

\* C24: for each document recognizer and every text, analyze(text, entities)
\* and analyze(uppercase(text), entities) return results with the same
\* spans; 123456af, nx5a, 307111942h, pa1234567 and ab1234 are reported
C24_CaseInsensitive ==
    (call = "analyze" /\ recognizer \in DocumentTypes /\ argtype = "str"
     /\ pc = "returned") =>
        /\ C24_Spans(results) =
               C24_Spans(DocumentAnalyze(recognizer, "str", C24_Uppercase(arg),
                                         entities).results)
        /\ ((\E s \in C24_Samples : s[1] = recognizer /\ s[2] = arg)
            /\ recognizer \in entities) =>
               C24_Spans(results) = <<<<0, Len(arg)>>>>

\* a text with a lowercase letter was analyzed and a result returned
C24_Witness ==
    /\ call = "analyze" /\ recognizer \in DocumentTypes /\ pc = "returned"
    /\ arg # C24_Uppercase(arg)
    /\ results # <<>>

\* each of the five lowercase samples was reported by its recognizer
C24_WitnessSamples ==
    /\ call = "analyze" /\ pc = "returned"
    /\ \E s \in C24_Samples : s[1] = recognizer /\ s[2] = arg
    /\ Len(results) = 1

\* C25: the results of one analyze call of a document recognizer are listed
\* left to right and never overlap: end(r_i) <= start(r_(i+1)) for
\* consecutive results, so no character belongs to two results
C25_ResultsNonOverlapping ==
    (call = "analyze" /\ recognizer \in DocumentTypes /\ pc = "returned") =>
        /\ \A i \in 1..(Len(results) - 1) : results[i].end <= results[i + 1].start
        /\ \A p \in 0..Len(arg) :
               Cardinality({i \in DOMAIN results :
                               results[i].start <= p /\ p < results[i].end}) <= 1

\* of four groups of three digits, where the groups 1-3 and 2-4 are both
\* candidates that the validator accepts, only the first was reported
C25_Witness ==
    /\ Returned("AU_DRIVERSLICENSE", "analyze")
    /\ arg = <<"1", "2", "3", " ", "4", "5", "6", " ", "7", "8", "9", " ", "0",
               "1", "2">>
    /\ Len(results) = 1
    /\ results[1].start = 0 /\ results[1].end = 11
    /\ PatternMatchAt("AU_DRIVERSLICENSE", arg, 4) = 15
    /\ _is_valid_license_number(SubSeq(arg, 5, 15))

\* two results of one call stand next to each other in the text
C25_WitnessTwoResults ==
    /\ call = "analyze" /\ recognizer \in DocumentTypes /\ pc = "returned"
    /\ Len(results) >= 2

\* C26 as stated: one state letter, one letter and four digits
C26_StateLetterShape(s) ==
    /\ Len(s) = 6
    /\ C24_Uppercase(<<s[1]>>)[1] \in {"N", "V", "Q", "W", "S", "T"}
    /\ \E k \in 1..26 : s[2] \in {UpperSeq[k], LowerSeq[k]}
    /\ \A i \in 3..6 : s[i] \in DigitChars

\* the other document recognizers that report the span of the given result
\* when they analyze the same text
C26_AlsoReportedBy(result) ==
    {r \in DocumentTypes \ {recognizer} :
        \E x \in Range(DocumentAnalyze(r, "str", arg, {r}).results) :
            x.start = result.start /\ x.end = result.end}

\* C26: if two different document recognizers report the same span of a
\* text, they are DVA and Driver's License and the spanned text is a state
\* letter of N, V, Q, W, S, T (in either case), a letter and four digits
C26_SameSpanOnlyDvaAndLicense ==
    (call = "analyze" /\ recognizer \in DocumentTypes /\ argtype = "str"
     /\ pc = "returned") =>
        \A i \in DOMAIN results :
            \A r \in C26_AlsoReportedBy(results[i]) :
                /\ {recognizer, r} = {"AU_DVA", "AU_DRIVERSLICENSE"}
                /\ C26_StateLetterShape(SubSeq(arg, results[i].start + 1,
                                               results[i].end))

\* DVA reported NA1234 in a text, and so did Driver's License
C26_Witness ==
    /\ Returned("AU_DVA", "analyze")
    /\ \E i \in DOMAIN results :
           /\ SubSeq(arg, results[i].start + 1, results[i].end)
                  = <<"N", "A", "1", "2", "3", "4">>
           /\ C26_AlsoReportedBy(results[i]) = {"AU_DRIVERSLICENSE"}

\* C27 as stated: the strings that differ from s in one digit
C27_OneDigitReplaced(s, positions) ==
    {[s EXCEPT ![i] = d] : <<i, d>> \in {p \in positions \X DigitChars :
                                            s[p[1]] \in DigitChars /\ s[p[1]] # p[2]}}

\* C27: replacing one of the nine digits of a CRN the validator accepts by a
\* different digit gives a string it rejects, and replacing one of the six
\* stem digits of a Medicare Provider number the validator accepts by a
\* different digit gives a string it rejects
C27_SingleDigitErrorsDetected ==
    /\ (Returned("AU_CRN", "validate") /\ valid) =>
           /\ Cardinality({i \in DOMAIN arg : arg[i] \in DigitChars}) = 9
           /\ \A t \in C27_OneDigitReplaced(arg, DOMAIN arg) : ~_is_valid_crn(t)
    /\ (Returned("AU_MEDICAREPROVIDER", "validate") /\ valid) =>
           \A t \in C27_OneDigitReplaced(arg, 1..6) : ~_is_valid_provider_number(t)

\* a CRN was accepted, and the same CRN with another state code, which is
\* rejected, is one of the 81 strings that differ from it in one digit
C27_Witness ==
    /\ Returned("AU_CRN", "validate") /\ valid
    /\ arg[1] = "3"
    /\ Cardinality(C27_OneDigitReplaced(arg, DOMAIN arg)) = 81
    /\ ~_is_valid_crn([arg EXCEPT ![1] = "5"])

\* a provider number was accepted whose 54 one-digit variants are rejected
C27_WitnessProvider ==
    /\ Returned("AU_MEDICAREPROVIDER", "validate") /\ valid
    /\ Cardinality(C27_OneDigitReplaced(arg, 1..6)) = 54

\* C28 as stated: two location characters are of the same class when their
\* PLV values are congruent modulo 11
C28_SameClass(a, b) == C1_PLV(a) % 11 = C1_PLV(b) % 11

C29_LetterDigitShape(s) ==
    LET letter(c) == \E k \in 1..26 : c \in {UpperSeq[k], LowerSeq[k]}
        digit(c)  == c \in DigitChars
    IN  /\ Len(s) = 6
        /\ \/ letter(s[1]) /\ \A i \in 2..6 : digit(s[i])
           \/ letter(s[1]) /\ letter(s[2]) /\ \A i \in 3..6 : digit(s[i])
           \/ letter(s[5]) /\ letter(s[6]) /\ \A i \in 1..4 : digit(s[i])

\* C29: the uniformity and sequence rules apply to all-digit numbers only:
\* every 6-character string of one letter and five digits, two letters and
\* four digits or four digits and two letters is accepted by the Driver's
\* License validator whatever its digits (A11111, A12345, AB0000, 0000AB)
C29_LetterShapesAccepted ==
    (Returned("AU_DRIVERSLICENSE", "validate") /\ C29_LetterDigitShape(arg)) =>
        valid

\* A11111 and 0000AB, whose digits are all the same, were accepted
C29_Witness ==
    /\ Returned("AU_DRIVERSLICENSE", "validate")
    /\ \/ arg = <<"A", "1", "1", "1", "1", "1">>
       \/ arg = <<"0", "0", "0", "0", "A", "B">>
    /\ valid

\* a letter followed by the digits 12345 was accepted
C29_WitnessSequence ==
    /\ Returned("AU_DRIVERSLICENSE", "validate")
    /\ arg = <<"A", "1", "2", "3", "4", "5">>
    /\ valid

\* C30 as stated: the ASCII letters
C30_Letters == {UpperSeq[k] : k \in 1..26} \cup {LowerSeq[k] : k \in 1..26}

\* C30: the dependent code never changes validity: a string the DVA validator
\* accepts that ends in a digit is also accepted with any one letter added
\* at its end, and a string it accepts that ends in a letter is also
\* accepted without its last character
C30_DependentCodeNeutral ==
    (Returned("AU_DVA", "validate") /\ valid) =>
        /\ arg[Len(arg)] \in DigitChars =>
               \A letter \in C30_Letters : _is_valid_dva_number(arg \o <<letter>>)
        /\ arg[Len(arg)] \in C30_Letters =>
               _is_valid_dva_number(SubSeq(arg, 1, Len(arg) - 1))
        /\ arg[Len(arg)] \in DigitChars \cup C30_Letters

\* the three-character number NX5 was accepted, and so is NX5A
C30_Witness ==
    /\ Returned("AU_DVA", "validate") /\ valid
    /\ arg = <<"N", "X", "5">>
    /\ _is_valid_dva_number(<<"N", "X", "5", "A">>)

\* a number of nine characters ending in a letter was accepted, and so is
\* the number without that letter
C30_WitnessDependent ==
    /\ Returned("AU_DVA", "validate") /\ valid
    /\ Len(arg) = 9
    /\ arg[9] \in C30_Letters
    /\ _is_valid_dva_number(SubSeq(arg, 1, 8))

\* a number of eight characters ending in a digit was accepted
C30_WitnessLongest ==
    /\ Returned("AU_DVA", "validate") /\ valid
    /\ Len(arg) = 8
    /\ arg[8] \in DigitChars

=============================================================================
